---- MODULE Spec2Model ----
(***************************************************************************)
(* The account-mapping cascade of GL2F: TextProcessor, SimilarityCalculator,*)
(* TransactionFeatureExtractor, AccountMatcher, TransactionPatternMatcher,  *)
(* RAGMapper, AccountPatternBuilder, MappingLogger and MappingOrchestrator. *)
(*                                                                         *)
(* A string is a sequence of one-character strings.  A number that the code *)
(* derives from a cosine is kept exactly as the square root of a fraction   *)
(* (see Frac below); IEEE rounding is not modelled.                         *)
(***************************************************************************)
EXTENDS Integers, Sequences, FiniteSets, TLC

----------------------------------------------------------------------------
(* Characters and the String.prototype functions the code uses.            *)

UpperCase == <<"A","B","C","D","E","F","G","H","I","J","K","L","M",
               "N","O","P","Q","R","S","T","U","V","W","X","Y","Z">>
LowerCase == <<"a","b","c","d","e","f","g","h","i","j","k","l","m",
               "n","o","p","q","r","s","t","u","v","w","x","y","z">>
DigitChars == <<"0","1","2","3","4","5","6","7","8","9">>

\* The value JavaScript gives a missing property.
Undefined == <<"undefined">>

Range(s) == {s[i] : i \in DOMAIN s}

\* Array.prototype.indexOf, 1-based; 0 when absent.
IndexOf(s, x) ==
  IF \E i \in DOMAIN s : s[i] = x
    THEN CHOOSE i \in DOMAIN s : s[i] = x /\ \A j \in 1..(i - 1) : s[j] # x
    ELSE 0

IsDigit(c) == c \in Range(DigitChars)
IsSpace(c) == c = " "
IsLowerAlnumOrSpace(c) == c \in Range(LowerCase) \/ IsDigit(c) \/ IsSpace(c)

ToLowerCase(s) ==
  [i \in 1..Len(s) |->
     LET k == IndexOf(UpperCase, s[i]) IN IF k = 0 THEN s[i] ELSE LowerCase[k]]

RECURSIVE TrimStart(_)
TrimStart(s) ==
  IF s # <<>> /\ IsSpace(Head(s)) THEN TrimStart(Tail(s)) ELSE s

RECURSIVE TrimEnd(_)
TrimEnd(s) ==
  IF s # <<>> /\ IsSpace(s[Len(s)]) THEN TrimEnd(SubSeq(s, 1, Len(s) - 1)) ELSE s

Trim(s) == TrimEnd(TrimStart(s))

\* s.split(/\s+/).filter(word => word.length > 0): the maximal runs of
\* non-whitespace characters, in order.
RECURSIVE SplitWords(_)
SplitWords(s) ==
  LET rest == TrimStart(s)
      spaces == {i \in DOMAIN rest : IsSpace(rest[i])}
      end == IF spaces = {} THEN Len(rest) + 1
             ELSE CHOOSE i \in spaces : \A j \in spaces : i <= j
  IN  IF rest = <<>> THEN <<>>
      ELSE <<SubSeq(rest, 1, end - 1)>> \o SplitWords(SubSeq(rest, end, Len(rest)))

\* s.split(/[\s-_]+/): runs of separators cut the string; a leading or a
\* trailing separator run leaves an empty first or last piece, and the empty
\* string splits into one empty piece.
IsPatternSeparator(c) == IsSpace(c) \/ c = "-" \/ c = "_"

RECURSIVE SplitOnSeparators(_, _, _, _)
SplitOnSeparators(s, cur, acc, inSep) ==
  IF s = <<>>
    THEN Append(acc, cur)
    ELSE IF IsPatternSeparator(Head(s))
           THEN IF inSep
                  THEN SplitOnSeparators(Tail(s), <<>>, acc, TRUE)
                  ELSE SplitOnSeparators(Tail(s), <<>>, Append(acc, cur), TRUE)
           ELSE SplitOnSeparators(Tail(s), Append(cur, Head(s)), acc, FALSE)

\* Array.prototype.join(' ').
RECURSIVE JoinWithSpace(_)
JoinWithSpace(parts) ==
  IF parts = <<>> THEN <<>>
  ELSE IF Len(parts) = 1 THEN parts[1]
  ELSE parts[1] \o <<" ">> \o JoinWithSpace(Tail(parts))

\* Set semantics of a JavaScript Set / Map key list: insertion order, no
\* duplicates.
SetAdd(s, x) == IF x \in Range(s) THEN s ELSE Append(s, x)

RECURSIVE SetAddAll(_, _)
SetAddAll(s, xs) ==
  IF xs = <<>> THEN s ELSE SetAddAll(SetAdd(s, Head(xs)), Tail(xs))

\* A JavaScript Map as a sequence of <<key, value>> in insertion order.
MapHas(m, k) == \E i \in DOMAIN m : m[i][1] = k
MapGet(m, k) == m[CHOOSE i \in DOMAIN m : m[i][1] = k][2]
MapSet(m, k, v) ==
  IF MapHas(m, k)
    THEN [i \in DOMAIN m |-> IF m[i][1] = k THEN <<k, v>> ELSE m[i]]
    ELSE Append(m, <<k, v>>)

\* `${n}` for a non-negative integer.
RECURSIVE NumberToString(_)
NumberToString(n) ==
  IF n < 10 THEN <<DigitChars[n + 1]>>
  ELSE NumberToString(n \div 10) \o <<DigitChars[(n % 10) + 1]>>

----------------------------------------------------------------------------
(* TextProcessor                                                           *)

stopWords ==
  { <<"a">>, <<"a","n">>, <<"a","n","d">>, <<"a","r","e">>, <<"a","s">>,
    <<"a","t">>, <<"b","e">>, <<"b","y">>, <<"f","o","r">>,
    <<"f","r","o","m">>, <<"h","a","s">>, <<"h","e">>, <<"i","n">>,
    <<"i","s">>, <<"i","t">>, <<"i","t","s">>, <<"o","f">>, <<"o","n">>,
    <<"t","h","a","t">>, <<"t","h","e">>, <<"t","o">>, <<"w","a","s">>,
    <<"w","e","r","e">>, <<"w","i","l","l">>, <<"w","i","t","h">> }

processText(text) ==
  LET words == SplitWords(SelectSeq(ToLowerCase(text), IsLowerAlnumOrSpace))
      NotStopWord(w) == w \notin stopWords
  IN  SelectSeq(words, NotStopWord)

RECURSIVE buildVocabularyFrom(_, _)
buildVocabularyFrom(texts, vocabulary) ==
  IF texts = <<>> THEN vocabulary
  ELSE buildVocabularyFrom(Tail(texts), SetAddAll(vocabulary, processText(Head(texts))))

buildVocabulary(texts) == buildVocabularyFrom(texts, <<>>)

createVector(text, vocabulary) ==
  LET words == processText(text)
  IN  [i \in 1..Len(vocabulary) |->
         Cardinality({j \in DOMAIN words : words[j] = vocabulary[i]})]

----------------------------------------------------------------------------
(* Numbers.  A number the scorers produce is kept exactly as sqrt(p / q),  *)
(* p and q naturals, q > 0: a cosine is dot / sqrt(|x|^2 * |y|^2), and the *)
(* fixed confidences are fractions.  kind "nan" is NaN, kind "inf" is +Infinity *)
(* and kind "null" is the null the cosine library returns for empty vectors.*)

Frac(n, d) == [kind |-> "num", p |-> n * n, q |-> d * d]
NaN == [kind |-> "nan", p |-> 0, q |-> 1]
Null == [kind |-> "null", p |-> 0, q |-> 1]
Infinity == [kind |-> "inf", p |-> 1, q |-> 1]
Zero == Frac(0, 1)

\* ToNumber: null converts to 0.
ToNumber(x) == IF x.kind = "null" THEN Zero ELSE x

IsNaN(x) == ToNumber(x).kind = "nan"

\* x > y as JavaScript evaluates it (false when either side is NaN).
GreaterThan(x, y) ==
  LET a == ToNumber(x) b == ToNumber(y)
  IN  \/ a.kind = "num" /\ b.kind = "num" /\ a.p * b.q > b.p * a.q
      \/ a.kind = "inf" /\ b.kind = "num"

\* x * (n / d), n > 0
TimesFrac(x, n, d) ==
  LET a == ToNumber(x)
  IN  IF a.kind = "num"
        THEN [kind |-> "num", p |-> a.p * n * n, q |-> a.q * d * d]
        ELSE a

\* Math.min(x, y)
MathMin(x, y) ==
  LET a == ToNumber(x) b == ToNumber(y)
  IN  IF a.kind = "nan" \/ b.kind = "nan" THEN NaN
      ELSE IF GreaterThan(a, b) THEN b ELSE a

\* A confidence lies in the unit interval.
InUnitInterval(x) == x.kind = "num" /\ x.p <= x.q

\* parseFloat of a decimal string with at most two fraction digits, in
\* hundredths: optional sign, digits, optional fraction; NaN without digits.
RECURSIVE DigitsValue(_, _)
DigitsValue(s, acc) ==
  IF s = <<>> THEN acc
  ELSE DigitsValue(Tail(s), acc * 10 + (IndexOf(DigitChars, Head(s)) - 1))

RECURSIVE LeadingDigits(_)
LeadingDigits(s) ==
  IF s # <<>> /\ IsDigit(Head(s)) THEN <<Head(s)>> \o LeadingDigits(Tail(s)) ELSE <<>>

parseFloat(str) ==
  LET s0 == TrimStart(str)
      neg == s0 # <<>> /\ Head(s0) = "-"
      s1 == IF s0 # <<>> /\ Head(s0) \in {"-", "+"} THEN Tail(s0) ELSE s0
      int == LeadingDigits(s1)
      rest == SubSeq(s1, Len(int) + 1, Len(s1))
      frac == IF rest # <<>> /\ Head(rest) = "." THEN LeadingDigits(Tail(rest)) ELSE <<>>
      frac2 == SubSeq(frac \o <<"0", "0">>, 1, 2)
      cents == DigitsValue(int, 0) * 100 + DigitsValue(frac2, 0)
  IN  IF int = <<>> /\ frac = <<>>
        THEN [nan |-> TRUE, cents |-> 0]
        ELSE [nan |-> FALSE, cents |-> IF neg THEN 0 - cents ELSE cents]

----------------------------------------------------------------------------
(* SimilarityCalculator.calculateSimilarity and the cosine library.        *)
(* An argument is [isArray, v]: a number[] or, where a caller passes text, *)
(* a string; both have a length.                                           *)

ArrayArg(v) == [isArray |-> TRUE, v |-> v]
StringArg(s) == [isArray |-> FALSE, v |-> s]

DotProduct(x, y) ==
  LET RECURSIVE Sum(_)
      Sum(i) == IF i = 0 THEN 0 ELSE x[i] * y[i] + Sum(i - 1)
  IN  Sum(Len(x))

\* compute-cosine-similarity: a TypeError unless both arguments are arrays,
\* an Error on different lengths, null for empty arrays, else
\* dot(x, y) / (l2norm(x) * l2norm(y)), which is 0 / 0 = NaN when either
\* vector is all zeros.
computeCosineSimilarity(x, y) ==
  IF ~x.isArray \/ ~y.isArray THEN [threw |-> TRUE, value |-> Zero]
  ELSE IF Len(x.v) # Len(y.v) THEN [threw |-> TRUE, value |-> Zero]
  ELSE IF Len(x.v) = 0 THEN [threw |-> FALSE, value |-> Null]
  ELSE LET a == DotProduct(x.v, y.v)
           b2 == DotProduct(x.v, x.v)
           c2 == DotProduct(y.v, y.v)
       IN  IF b2 * c2 = 0
             THEN [threw |-> FALSE, value |-> NaN]
             ELSE [threw |-> FALSE, value |-> [kind |-> "num", p |-> a * a, q |-> b2 * c2]]

calculateSimilarity(vector1, vector2) ==
  IF Len(vector1.v) # Len(vector2.v)
    THEN [threw |-> TRUE, value |-> Zero]
    ELSE computeCosineSimilarity(vector1, vector2)

----------------------------------------------------------------------------
(* String literals of the source.                                          *)

S_debit == <<"d","e","b","i","t">>
S_credit == <<"c","r","e","d","i","t">>
S_unknown == <<"u","n","k","n","o","w","n">>
S_asset == <<"a","s","s","e","t">>
S_liability == <<"l","i","a","b","i","l","i","t","y">>
S_expense == <<"e","x","p","e","n","s","e">>
S_revenue == <<"r","e","v","e","n","u","e">>
S_description_word == <<"d","e","s","c","r","i","p","t","i","o","n","_","w","o","r","d">>
S_description_word_pair == <<"d","e","s","c","r","i","p","t","i","o","n","_","w","o","r","d","_","p","a","i","r">>
S_amount_range == <<"a","m","o","u","n","t","_","r","a","n","g","e">>
S_amount_type == <<"a","m","o","u","n","t","_","t","y","p","e">>
S_vendor == <<"v","e","n","d","o","r">>
S_vendor_type == <<"v","e","n","d","o","r","_","t","y","p","e">>
S_day_of_week == <<"d","a","y","_","o","f","_","w","e","e","k">>
S_day_of_month == <<"d","a","y","_","o","f","_","m","o","n","t","h">>
S_date_type == <<"d","a","t","e","_","t","y","p","e">>
S_transaction_type == <<"t","r","a","n","s","a","c","t","i","o","n","_","t","y","p","e">>
S_very_small == <<"v","e","r","y","_","s","m","a","l","l">>
S_small == <<"s","m","a","l","l">>
S_medium == <<"m","e","d","i","u","m">>
S_large == <<"l","a","r","g","e">>
S_very_large == <<"v","e","r","y","_","l","a","r","g","e">>
S_whole_number == <<"w","h","o","l","e","_","n","u","m","b","e","r">>
S_common_amount == <<"c","o","m","m","o","n","_","a","m","o","u","n","t">>
S_month_boundary == <<"m","o","n","t","h","_","b","o","u","n","d","a","r","y">>
S_weekend == <<"w","e","e","k","e","n","d">>
S_company == <<"c","o","m","p","a","n","y">>
S_retail == <<"r","e","t","a","i","l">>
S_financial == <<"f","i","n","a","n","c","i","a","l">>
S_food_service == <<"f","o","o","d","_","s","e","r","v","i","c","e">>
S_service == <<"s","e","r","v","i","c","e">>

----------------------------------------------------------------------------
(* TransactionFeatureExtractor.  A weight is kept in hundredths.  A        *)
(* transaction's date is held as the fields new Date(date) yields: day     *)
(* (getDay), date (getDate) and lastDate, the last day of its month.       *)

Feature(type, value, weight) ==
  [type |-> type, numeric |-> FALSE, value |-> value, number |-> 0, weight |-> weight]
NumericFeature(type, number, weight) ==
  [type |-> type, numeric |-> TRUE, value |-> <<>>, number |-> number, weight |-> weight]

\* `${f.type}:${f.value}`
FeatureKey(f) ==
  f.type \o <<":">> \o (IF f.numeric THEN NumberToString(f.number) ELSE f.value)

\* entries.find(e => e.type === type): the first such entry, <<>> when none.
FindEntry(transaction, type) ==
  LET es == transaction.entries
      Is(e) == e.type = type
      hits == SelectSeq(es, Is)
  IN  IF hits = <<>> THEN <<>> ELSE <<Head(hits)>>

extractDescriptionFeatures(description) ==
  LET words == processText(description)
  IN  [i \in 1..Len(words) |-> Feature(S_description_word, words[i], 100)]
      \o [i \in 1..(IF Len(words) = 0 THEN 0 ELSE Len(words) - 1) |->
            Feature(S_description_word_pair, words[i] \o <<"_">> \o words[i + 1], 120)]

getAmountRange(amount) ==
  IF ~amount.nan /\ amount.cents <= 100 * 100 THEN S_very_small
  ELSE IF ~amount.nan /\ amount.cents <= 1000 * 100 THEN S_small
  ELSE IF ~amount.nan /\ amount.cents <= 10000 * 100 THEN S_medium
  ELSE IF ~amount.nan /\ amount.cents <= 100000 * 100 THEN S_large
  ELSE S_very_large

isCommonAmount(amount) ==
  /\ ~amount.nan
  /\ \/ amount.cents \in {10 * 100, 20 * 100, 50 * 100, 100 * 100, 500 * 100, 1000 * 100}
     \/ amount.cents % (100 * 100) = 0

extractAmountFeatures(transaction) ==
  LET debitEntry == FindEntry(transaction, S_debit)
      amount == IF debitEntry # <<>> THEN parseFloat(debitEntry[1].amount)
                ELSE [nan |-> FALSE, cents |-> 0]
  IN  <<Feature(S_amount_range, getAmountRange(amount), 100)>>
      \o (IF ~amount.nan /\ amount.cents % 100 = 0
            THEN <<Feature(S_amount_type, S_whole_number, 120)>> ELSE <<>>)
      \o (IF isCommonAmount(amount)
            THEN <<Feature(S_amount_type, S_common_amount, 150)>> ELSE <<>>)

EndsWith(s, suffix) ==
  Len(s) >= Len(suffix) /\ SubSeq(s, Len(s) - Len(suffix) + 1, Len(s)) = suffix
Contains(s, part) ==
  \E i \in 1..(Len(s) - Len(part) + 1) : SubSeq(s, i, i + Len(part) - 1) = part

detectVendorTypes(vendor) ==
  (IF \E x \in {<<"i","n","c">>, <<"c","o","r","p">>, <<"l","t","d">>, <<"l","l","c">>} :
        EndsWith(vendor, x)
     THEN <<S_company>> ELSE <<>>)
  \o (IF \E x \in {<<"s","t","o","r","e">>, <<"s","h","o","p">>, <<"m","a","r","t">>,
                   <<"m","a","r","k","e","t">>} : EndsWith(vendor, x)
        THEN <<S_retail>> ELSE <<>>)
  \o (IF \E x \in {<<"b","a","n","k">>, <<"c","r","e","d","i","t"," ","u","n","i","o","n">>,
                   <<"f","i","n","a","n","c","i","a","l">>} : Contains(vendor, x)
        THEN <<S_financial>> ELSE <<>>)
  \o (IF \E x \in {<<"r","e","s","t","a","u","r","a","n","t">>, <<"c","a","f","e">>,
                   <<"d","i","n","e","r">>} : Contains(vendor, x)
        THEN <<S_food_service>> ELSE <<>>)
  \o (IF \E x \in {<<"s","e","r","v","i","c","e">>, <<"c","o","n","s","u","l","t","i","n","g">>,
                   <<"p","r","o","f","e","s","s","i","o","n","a","l">>} : Contains(vendor, x)
        THEN <<S_service>> ELSE <<>>)

extractVendorFeatures(vendor) ==
  LET normalizedVendor == Trim(ToLowerCase(vendor))
      vendorTypes == detectVendorTypes(normalizedVendor)
  IN  <<Feature(S_vendor, normalizedVendor, 100)>>
      \o [i \in 1..Len(vendorTypes) |-> Feature(S_vendor_type, vendorTypes[i], 120)]

isMonthBoundary(date) == date.date = 1 \/ date.date = date.lastDate
isWeekend(date) == date.day = 0 \/ date.day = 6

extractDateFeatures(date) ==
  <<NumericFeature(S_day_of_week, date.day, 100),
    NumericFeature(S_day_of_month, date.date, 100)>>
  \o (IF isMonthBoundary(date) THEN <<Feature(S_date_type, S_month_boundary, 150)>> ELSE <<>>)
  \o (IF isWeekend(date) THEN <<Feature(S_date_type, S_weekend, 120)>> ELSE <<>>)

\* customerName is falsy when it is undefined or empty.
HasCustomerName(transaction) ==
  transaction.customerName # Undefined /\ transaction.customerName # <<>>

\* Each group's features are re-created with the group weight as their weight.
WithWeight(features, weight) ==
  [i \in 1..Len(features) |-> [features[i] EXCEPT !.weight = weight]]

extractFeatures(transaction) ==
  WithWeight(extractDescriptionFeatures(transaction.description), 35)
  \o WithWeight(extractAmountFeatures(transaction), 25)
  \o (IF HasCustomerName(transaction)
        THEN WithWeight(extractVendorFeatures(transaction.customerName), 20) ELSE <<>>)
  \o WithWeight(extractDateFeatures(transaction.date), 15)
  \o <<Feature(S_transaction_type,
               IF transaction.entries # <<>> THEN transaction.entries[1].type ELSE S_unknown,
               5)>>

----------------------------------------------------------------------------
(* Accounts, standards and results.                                        *)
(* An optional value (Account | undefined) is <<>> or <<value>>.           *)

\* standard.signConventions[type]: <<>> when the standard has none.
signConventionOf(standard, type) ==
  IF MapHas(standard.signConventions, type)
    THEN <<[normalBalance |-> MapGet(standard.signConventions, type)]>>
    ELSE <<>>

\* { confidence: 0 }
NoResult == [debitAccount |-> <<>>, creditAccount |-> <<>>, confidence |-> Zero]

\* `${account.name} ${account.description || ''} ${account.type} ${account.subtype}`
accountText(account) ==
  account.name \o <<" ">>
  \o (IF account.description = Undefined THEN <<>> ELSE account.description)
  \o <<" ">> \o account.type \o <<" ">> \o account.subtype

\* The sort left out: the items in the order given.
SortDescendingAsGiven(items, acc) == acc \o items

\* Array.prototype.sort((a, b) => b[key] - a[key]) on similarity / score /
\* confidence: stable, descending; a NaN difference leaves the order alone.
RECURSIVE SortDescending(_, _)
SortDescending(items, acc) ==
  IF items = <<>> THEN acc
  ELSE LET x == Head(items)
           later == {i \in DOMAIN acc : GreaterThan(x.similarity, acc[i].similarity)}
           at == IF later = {} THEN Len(acc) + 1
                 ELSE CHOOSE i \in later : \A j \in later : i <= j
       IN  SortDescending(Tail(items),
                          SubSeq(acc, 1, at - 1) \o <<x>> \o SubSeq(acc, at, Len(acc)))

\* Array.prototype.find: the first element satisfying Test, as an optional.
FindFirst(items, Test(_)) ==
  LET hits == SelectSeq(items, Test)
  IN  IF hits = <<>> THEN <<>> ELSE <<Head(hits)>>

----------------------------------------------------------------------------
(* RAGMapper                                                               *)

RAGMapperNew ==
  [accounts |-> <<>>, standard |-> <<>>, accountEmbeddings |-> <<>>, vocabulary |-> <<>>]

RECURSIVE createAccountEmbeddings(_, _, _)
createAccountEmbeddings(accounts, vocabulary, embeddings) ==
  IF accounts = <<>> THEN embeddings
  ELSE createAccountEmbeddings(
         Tail(accounts), vocabulary,
         MapSet(embeddings, Head(accounts).id,
                createVector(accountText(Head(accounts)), vocabulary)))

ragBuildVocabulary(accounts) ==
  buildVocabulary([i \in 1..Len(accounts) |-> accountText(accounts[i])])

ragInitialize(accounts, standard) ==
  LET vocabulary == ragBuildVocabulary(accounts)
  IN  [accounts |-> accounts,
       standard |-> <<standard>>,
       accountEmbeddings |-> createAccountEmbeddings(accounts, vocabulary, <<>>),
       vocabulary |-> vocabulary]

createTransactionEmbedding(rag, transaction, features) ==
  LET text == JoinWithSpace(
                <<transaction.description,
                  IF HasCustomerName(transaction) THEN transaction.customerName ELSE <<>>>>
                \o [i \in 1..Len(features) |-> FeatureKey(features[i])])
  IN  createVector(text, rag.vocabulary)

\* 1.2 and 0.8 in tenths.
getSignConventionBoost(normalBalance, amount) ==
  IF \/ (~amount.nan /\ amount.cents > 0 /\ normalBalance = S_debit)
     \/ (~amount.nan /\ amount.cents < 0 /\ normalBalance = S_credit)
    THEN 12 ELSE 8

isValidDebitAccount(rag, account) ==
  /\ rag.standard # <<>> /\ account # <<>>
  /\ LET signConvention == signConventionOf(rag.standard[1], account[1].type)
     IN  signConvention # <<>> /\ signConvention[1].normalBalance = S_debit

isValidCreditAccount(rag, account) ==
  /\ rag.standard # <<>> /\ account # <<>>
  /\ LET signConvention == signConventionOf(rag.standard[1], account[1].type)
     IN  signConvention # <<>> /\ signConvention[1].normalBalance = S_credit

\* The score of one accountEmbeddings entry; threw when calculateSimilarity
\* throws.
ragScore(rag, transactionEmbedding, debitEntry, entry) ==
  LET sim == calculateSimilarity(ArrayArg(transactionEmbedding), ArrayArg(entry[2]))
      IsId(a) == a.id = entry[1]
      account == FindFirst(rag.accounts, IsId)
  IN  IF sim.threw THEN [threw |-> TRUE, account |-> <<>>, similarity |-> Zero]
      ELSE IF account = <<>> \/ rag.standard = <<>>
        THEN [threw |-> FALSE, account |-> account, similarity |-> Zero]
      ELSE LET signConvention == signConventionOf(rag.standard[1], account[1].type)
           IN  IF signConvention # <<>>
                 THEN [threw |-> FALSE, account |-> account,
                       similarity |->
                         TimesFrac(sim.value,
                                   getSignConventionBoost(signConvention[1].normalBalance,
                                                          parseFloat(debitEntry.amount)),
                                   10)]
                 ELSE [threw |-> FALSE, account |-> account, similarity |-> sim.value]

\* [threw, result]
findBestMatches(rag, transactionEmbedding, transaction) ==
  LET debitEntry == FindEntry(transaction, S_debit)
      creditEntry == FindEntry(transaction, S_credit)
  IN  IF debitEntry = <<>> \/ creditEntry = <<>>
        THEN [threw |-> FALSE, result |-> NoResult]
      ELSE
        LET raw == [i \in 1..Len(rag.accountEmbeddings) |->
                      ragScore(rag, transactionEmbedding, debitEntry[1],
                               rag.accountEmbeddings[i])]
        IN  IF \E i \in DOMAIN raw : raw[i].threw
              THEN [threw |-> TRUE, result |-> NoResult]
            ELSE
              LET scores == SortDescending(raw, <<>>)
                  IsDebit(s) == isValidDebitAccount(rag, s.account)
                  bestDebit == FindFirst(scores, IsDebit)
                  IsCredit(s) ==
                    /\ (bestDebit = <<>> \/ s.account # bestDebit[1].account)
                    /\ isValidCreditAccount(rag, s.account)
                  bestCredit == FindFirst(scores, IsCredit)
              IN  IF bestDebit = <<>> \/ bestCredit = <<>>
                    THEN [threw |-> FALSE, result |-> NoResult]
                    ELSE [threw |-> FALSE,
                          result |->
                            [debitAccount |-> bestDebit[1].account,
                             creditAccount |-> bestCredit[1].account,
                             confidence |-> MathMin(bestDebit[1].similarity,
                                                    bestCredit[1].similarity)]]

\* The part of RAGMapper.mapTransaction after its await: the try block's
\* findBestMatches, and the catch that turns a throw into { confidence: 0 }.
ragMapTransaction(rag, transactionEmbedding, transaction) ==
  LET matches == findBestMatches(rag, transactionEmbedding, transaction)
  IN  IF matches.threw THEN NoResult ELSE matches.result

\* Whether that catch block runs.
ragMapTransactionCaught(rag, transactionEmbedding, transaction) ==
  findBestMatches(rag, transactionEmbedding, transaction).threw

----------------------------------------------------------------------------
(* TransactionPatternMatcher                                               *)

TransactionPatternMatcherNew ==
  [historicalPatterns |-> <<>>, vendorPatterns |-> <<>>, accountUsageFrequency |-> <<>>]

normalizeText(text) == Trim(ToLowerCase(text))

\* A variant that records that an account was used, not how often.
incrementAccountUsageOnce(usage, accountId) ==
  MapSet(usage, accountId, 1)

incrementAccountUsage(usage, accountId) ==
  MapSet(usage, accountId, (IF MapHas(usage, accountId) THEN MapGet(usage, accountId) ELSE 0) + 1)

\* learnFromTransaction keeping the pair a key already has.
learnFromTransactionFirstWriteWins(tpm, transaction, debitAccountId, creditAccountId) ==
  LET pair == [debit |-> debitAccountId, credit |-> creditAccountId]
      SetIfAbsent(m, k) == IF MapHas(m, k) THEN m ELSE MapSet(m, k, pair)
  IN  [historicalPatterns |->
         SetIfAbsent(tpm.historicalPatterns, normalizeText(transaction.description)),
       vendorPatterns |->
         IF HasCustomerName(transaction)
           THEN SetIfAbsent(tpm.vendorPatterns, normalizeText(transaction.customerName))
           ELSE tpm.vendorPatterns,
       accountUsageFrequency |->
         incrementAccountUsage(incrementAccountUsage(tpm.accountUsageFrequency, debitAccountId),
                               creditAccountId)]

\* A variant of initialize that clears the historical table and the usage
\* counts but keeps the vendor table.
tpmInitializeKeepsVendors(tpm) ==
  [historicalPatterns |-> <<>>, vendorPatterns |-> tpm.vendorPatterns,
   accountUsageFrequency |-> <<>>]

\* initialize(): the three tables are cleared.
tpmInitialize(tpm) ==
  [historicalPatterns |-> <<>>, vendorPatterns |-> <<>>, accountUsageFrequency |-> <<>>]

getPatternStats(tpm) ==
  [historicalPatterns |-> Len(tpm.historicalPatterns),
   vendorPatterns |-> Len(tpm.vendorPatterns),
   accountsWithUsage |-> Len(tpm.accountUsageFrequency)]

learnFromTransaction(tpm, transaction, debitAccountId, creditAccountId) ==
  LET pair == [debit |-> debitAccountId, credit |-> creditAccountId]
  IN  [historicalPatterns |->
         MapSet(tpm.historicalPatterns, normalizeText(transaction.description), pair),
       vendorPatterns |->
         IF HasCustomerName(transaction)
           THEN MapSet(tpm.vendorPatterns, normalizeText(transaction.customerName), pair)
           ELSE tpm.vendorPatterns,
       accountUsageFrequency |->
         incrementAccountUsage(incrementAccountUsage(tpm.accountUsageFrequency, debitAccountId),
                               creditAccountId)]

\* findHistoricalMatch looking the description up as written.
findHistoricalMatchAsWritten(tpm, transaction) ==
  IF MapHas(tpm.historicalPatterns, transaction.description)
    THEN <<MapGet(tpm.historicalPatterns, transaction.description)>> ELSE <<>>

findHistoricalMatch(tpm, transaction) ==
  LET normalizedDesc == normalizeText(transaction.description)
  IN  IF MapHas(tpm.historicalPatterns, normalizedDesc)
        THEN <<MapGet(tpm.historicalPatterns, normalizedDesc)>> ELSE <<>>

findVendorMatch(tpm, transaction) ==
  IF ~HasCustomerName(transaction) THEN <<>>
  ELSE LET normalizedVendor == normalizeText(transaction.customerName)
       IN  IF MapHas(tpm.vendorPatterns, normalizedVendor)
             THEN <<MapGet(tpm.vendorPatterns, normalizedVendor)>> ELSE <<>>

PatternMatch(accountId, confidence, reason) ==
  [accountId |-> accountId, confidence |-> confidence, reason |-> reason]

\* The loop over historicalPatterns.entries(); it hands the two descriptions,
\* which are strings, to SimilarityCalculator.calculateSimilarity.
\* [threw, debitMatches, creditMatches]
RECURSIVE similarDescriptionLoop(_, _, _)
similarDescriptionLoop(entries, transaction, results) ==
  IF entries = <<>> THEN results
  ELSE LET desc == Head(entries)[1]
           pattern == Head(entries)[2]
           similarity == calculateSimilarity(StringArg(transaction.description),
                                             StringArg(desc))
       IN  IF similarity.threw THEN [results EXCEPT !.threw = TRUE]
           ELSE IF GreaterThan(similarity.value, Frac(7, 10))
             THEN similarDescriptionLoop(
                    Tail(entries), transaction,
                    [threw |-> FALSE,
                     debitMatches |->
                       Append(results.debitMatches,
                              PatternMatch(pattern.debit,
                                           TimesFrac(similarity.value, 85, 100),
                                           "Similar description match")),
                     creditMatches |->
                       Append(results.creditMatches,
                              PatternMatch(pattern.credit,
                                           TimesFrac(similarity.value, 85, 100),
                                           "Similar description match"))])
             ELSE similarDescriptionLoop(Tail(entries), transaction, results)

findSimilarDescriptionMatches(tpm, transaction) ==
  similarDescriptionLoop(tpm.historicalPatterns, transaction,
                         [threw |-> FALSE, debitMatches |-> <<>>, creditMatches |-> <<>>])

\* 0.5 + frequency / (historicalPatterns.size * 2)
frequencyConfidence(frequency, size) ==
  IF size = 0
    THEN (IF frequency = 0 THEN NaN ELSE Infinity)
    ELSE Frac(size + frequency, 2 * size)

getFrequencyBasedMatches(tpm) ==
  LET usage == tpm.accountUsageFrequency
      sorted == SortDescending(
                  [i \in 1..Len(usage) |->
                     [accountId |-> usage[i][1], frequency |-> usage[i][2],
                      similarity |-> Frac(usage[i][2], 1)]],
                  <<>>)
      top == SubSeq(sorted, 1, IF Len(sorted) < 5 THEN Len(sorted) ELSE 5)
  IN  [i \in 1..Len(top) |->
         PatternMatch(top[i].accountId,
                      frequencyConfidence(top[i].frequency, Len(tpm.historicalPatterns)),
                      "Frequently used account")]

\* findMatches pushing the vendor candidate before the historical one.
findMatchesVendorFirst(tpm, transaction) ==
  LET historicalMatch == findHistoricalMatch(tpm, transaction)
      vendorMatch == findVendorMatch(tpm, transaction)
      d1 == IF vendorMatch # <<>>
              THEN <<PatternMatch(vendorMatch[1].debit, Frac(9, 10), "Vendor pattern match")>>
              ELSE <<>>
      c1 == IF vendorMatch # <<>>
              THEN <<PatternMatch(vendorMatch[1].credit, Frac(9, 10), "Vendor pattern match")>>
              ELSE <<>>
      d2 == IF historicalMatch # <<>>
              THEN Append(d1, PatternMatch(historicalMatch[1].debit, Frac(95, 100),
                                           "Historical pattern match"))
              ELSE d1
      c2 == IF historicalMatch # <<>>
              THEN Append(c1, PatternMatch(historicalMatch[1].credit, Frac(95, 100),
                                           "Historical pattern match"))
              ELSE c1
  IN  [debitMatches |-> d2, creditMatches |-> c2]

\* The try block fills results step by step; the catch returns what had been
\* pushed before the throw.
findMatches(tpm, transaction) ==
  LET historicalMatch == findHistoricalMatch(tpm, transaction)
      d1 == IF historicalMatch # <<>>
              THEN <<PatternMatch(historicalMatch[1].debit, Frac(95, 100),
                                  "Historical pattern match")>>
              ELSE <<>>
      c1 == IF historicalMatch # <<>>
              THEN <<PatternMatch(historicalMatch[1].credit, Frac(95, 100),
                                  "Historical pattern match")>>
              ELSE <<>>
      vendorMatch == findVendorMatch(tpm, transaction)
      d2 == IF vendorMatch # <<>>
              THEN Append(d1, PatternMatch(vendorMatch[1].debit, Frac(9, 10),
                                           "Vendor pattern match"))
              ELSE d1
      c2 == IF vendorMatch # <<>>
              THEN Append(c1, PatternMatch(vendorMatch[1].credit, Frac(9, 10),
                                           "Vendor pattern match"))
              ELSE c1
      similarMatches == findSimilarDescriptionMatches(tpm, transaction)
      frequencyMatches == getFrequencyBasedMatches(tpm)
  IN  IF similarMatches.threw
        THEN [debitMatches |-> d2, creditMatches |-> c2]
        ELSE [debitMatches |-> d2 \o similarMatches.debitMatches \o frequencyMatches,
              creditMatches |-> c2 \o similarMatches.creditMatches \o frequencyMatches]

\* Whether findMatches' catch block runs.
findMatchesCaught(tpm, transaction) ==
  findSimilarDescriptionMatches(tpm, transaction).threw

----------------------------------------------------------------------------
(* AccountMatcher                                                          *)

AccountMatcherNew == [accounts |-> <<>>, standard |-> <<>>, accountPatterns |-> <<>>]

\* account.code.toLowerCase() throws a TypeError when code is undefined.
\* [threw, patterns]
extractAccountPatterns(account) ==
  IF account.code = Undefined THEN [threw |-> TRUE, patterns |-> <<>>]
  ELSE
    LET p1 == SetAddAll(<<ToLowerCase(account.code)>>,
                        SplitOnSeparators(ToLowerCase(account.name), <<>>, <<>>, FALSE))
        p2 == IF account.description # Undefined /\ account.description # <<>>
                THEN SetAddAll(p1, SplitOnSeparators(ToLowerCase(account.description),
                                                     <<>>, <<>>, FALSE))
                ELSE p1
    IN  [threw |-> FALSE, patterns |-> SetAdd(SetAdd(p2, account.type), account.subtype)]

\* accounts.forEach(...) filling accountPatterns, stopped by the first throw.
RECURSIVE amPatternLoop(_, _)
amPatternLoop(accounts, state) ==
  IF accounts = <<>> THEN state
  ELSE LET e == extractAccountPatterns(Head(accounts))
       IN  IF e.threw THEN [state EXCEPT !.threw = TRUE]
           ELSE amPatternLoop(
                  Tail(accounts),
                  [state EXCEPT !.accountPatterns = MapSet(@, Head(accounts).id, e.patterns)])

\* [threw, accounts, standard, accountPatterns]: the fields as the call leaves
\* them, also when it throws part-way.
amInitialize(accounts, standard) ==
  amPatternLoop(accounts,
                [threw |-> FALSE, accounts |-> accounts, standard |-> <<standard>>,
                 accountPatterns |-> <<>>])

findExactMatch(am, accountNumber) ==
  LET Matches(account) == account.code = accountNumber /\ account.isActive
  IN  FindFirst(am.accounts, Matches)

\* replace(/\D/g, '').replace(/^0+/, '')
RECURSIVE StripLeadingZeros(_)
StripLeadingZeros(s) ==
  IF s # <<>> /\ Head(s) = "0" THEN StripLeadingZeros(Tail(s)) ELSE s

normalizeCode(code) == StripLeadingZeros(SelectSeq(code, IsDigit))

\* accounts.find(...): account.code.replace throws on an undefined code.
\* [threw, account]
RECURSIVE fuzzyLoop(_, _)
fuzzyLoop(accounts, normalizedInput) ==
  IF accounts = <<>> THEN [threw |-> FALSE, account |-> <<>>]
  ELSE IF Head(accounts).code = Undefined THEN [threw |-> TRUE, account |-> <<>>]
  ELSE IF normalizeCode(Head(accounts).code) = normalizedInput /\ Head(accounts).isActive
    THEN [threw |-> FALSE, account |-> <<Head(accounts)>>]
    ELSE fuzzyLoop(Tail(accounts), normalizedInput)

findFuzzyCodeMatch(am, accountNumber) ==
  fuzzyLoop(am.accounts, normalizeCode(accountNumber))

\* The scorer hands the description and the account's text, two strings, to
\* SimilarityCalculator.calculateSimilarity inside the map callback, so the
\* first active account makes it throw; no score is ever compared with 0.6.
\* [threw, account]
findDescriptionMatch(am, description, entryType, amount) ==
  LET IsActive(account) == account.isActive
      active == SelectSeq(am.accounts, IsActive)
      Sim(account) ==
        calculateSimilarity(
          StringArg(description),
          StringArg(account.name \o <<" ">>
                    \o (IF account.description = Undefined THEN <<>>
                        ELSE account.description)))
  IN  IF \E i \in DOMAIN active : Sim(active[i]).threw
        THEN [threw |-> TRUE, account |-> <<>>]
        ELSE [threw |-> FALSE, account |-> <<>>]

\* validateAccountMatch as a soft signal: every candidate passes.
validateAccountMatchAlwaysPasses(am, account, entry) == TRUE

validateAccountMatch(am, account, entry) ==
  IF am.standard = <<>> THEN TRUE
  ELSE LET signConvention == signConventionOf(am.standard[1], account.type)
       IN  IF signConvention = <<>> THEN FALSE
           ELSE entry.type = signConvention[1].normalBalance

\* findMatchingAccount with the fuzzy code step tried before the exact one.
findMatchingAccountFuzzyFirst(am, entry, transaction) ==
  LET exactMatch == findExactMatch(am, entry.accountNumber)
      fuzzyMatch == findFuzzyCodeMatch(am, entry.accountNumber)
  IN  IF fuzzyMatch.threw THEN <<>>
      ELSE IF fuzzyMatch.account # <<>>
        THEN (IF validateAccountMatch(am, fuzzyMatch.account[1], entry)
                THEN fuzzyMatch.account ELSE <<>>)
      ELSE IF exactMatch # <<>>
        THEN (IF validateAccountMatch(am, exactMatch[1], entry) THEN exactMatch ELSE <<>>)
      ELSE <<>>

\* Account | undefined; the catch turns any throw into undefined.
findMatchingAccount(am, entry, transaction) ==
  LET exactMatch == findExactMatch(am, entry.accountNumber)
      fuzzyMatch == findFuzzyCodeMatch(am, entry.accountNumber)
      descriptionMatch == findDescriptionMatch(am, transaction.description, entry.type,
                                               parseFloat(entry.amount))
  IN  IF exactMatch # <<>>
        THEN (IF validateAccountMatch(am, exactMatch[1], entry) THEN exactMatch ELSE <<>>)
      ELSE IF fuzzyMatch.threw THEN <<>>
      ELSE IF fuzzyMatch.account # <<>>
        THEN (IF validateAccountMatch(am, fuzzyMatch.account[1], entry)
                THEN fuzzyMatch.account ELSE <<>>)
      ELSE IF descriptionMatch.threw THEN <<>>
      ELSE IF descriptionMatch.account # <<>>
        THEN (IF validateAccountMatch(am, descriptionMatch.account[1], entry)
                THEN descriptionMatch.account ELSE <<>>)
      ELSE <<>>

\* Whether findMatchingAccount's catch block runs.
findMatchingAccountCaught(am, entry, transaction) ==
  LET fuzzyMatch == findFuzzyCodeMatch(am, entry.accountNumber)
  IN  /\ findExactMatch(am, entry.accountNumber) = <<>>
      /\ \/ fuzzyMatch.threw
         \/ /\ fuzzyMatch.account = <<>>
            /\ findDescriptionMatch(am, transaction.description, entry.type,
                                    parseFloat(entry.amount)).threw

----------------------------------------------------------------------------
(* AccountPatternBuilder                                                   *)

AccountPatternBuilderNew == [patterns |-> <<>>, vocabulary |-> <<>>]

RECURSIVE countWords(_, _)
countWords(words, frequencies) ==
  IF words = <<>> THEN frequencies
  ELSE countWords(Tail(words),
                  MapSet(frequencies, Head(words),
                         (IF MapHas(frequencies, Head(words))
                            THEN MapGet(frequencies, Head(words)) ELSE 0) + 1))

extractKeyPhrases(text) ==
  LET frequencies == countWords(processText(text), <<>>)
      sorted == SortDescending(
                  [i \in 1..Len(frequencies) |->
                     [word |-> frequencies[i][1], similarity |-> Frac(frequencies[i][2], 1)]],
                  <<>>)
      top == SubSeq(sorted, 1, IF Len(sorted) < 5 THEN Len(sorted) ELSE 5)
  IN  [i \in 1..Len(top) |-> top[i].word]

createPattern(account, vocabulary) ==
  LET text == accountText(account)
  IN  [code |-> account.code, type |-> account.type,
       keywords |-> extractKeyPhrases(text),
       description |-> text,
       vector |-> createVector(text, vocabulary)]

RECURSIVE apbPatternLoop(_, _, _)
apbPatternLoop(accounts, vocabulary, patterns) ==
  IF accounts = <<>> THEN patterns
  ELSE apbPatternLoop(Tail(accounts), vocabulary,
                      MapSet(patterns, Head(accounts).id,
                             createPattern(Head(accounts), vocabulary)))

\* The vocabulary is replaced; patterns are set per account of the new chart
\* into the existing map.
buildPatterns(apb, accounts) ==
  LET vocabulary == ragBuildVocabulary(accounts)
  IN  [patterns |-> apbPatternLoop(accounts, vocabulary, apb.patterns),
       vocabulary |-> vocabulary]

----------------------------------------------------------------------------
(* MappingLogger: the attempt counters and the start-time table (the keys  *)
(* only; logs and durations are not kept).                                 *)

MappingLoggerNew ==
  [attempts |-> [total |-> 0, successful |-> 0, failed |-> 0], startTimes |-> {}]

startAttempt(logger, transactionId) ==
  [attempts |-> [logger.attempts EXCEPT !.total = @ + 1],
   startTimes |-> logger.startTimes \cup {transactionId}]

endAttempt(logger, transactionId, success) ==
  IF transactionId \in logger.startTimes
    THEN [attempts |->
            IF success THEN [logger.attempts EXCEPT !.successful = @ + 1]
            ELSE [logger.attempts EXCEPT !.failed = @ + 1],
          startTimes |-> logger.startTimes \ {transactionId}]
    ELSE logger

----------------------------------------------------------------------------
(* MappingOrchestrator: the two private stage wrappers.                    *)

tryPatternMatching(tpm, transaction) ==
  LET matches == findMatches(tpm, transaction)
  IN  IF Len(matches.debitMatches) > 0 /\ Len(matches.creditMatches) > 0
        THEN [debitAccount |-> <<[id |-> matches.debitMatches[1].accountId]>>,
              creditAccount |-> <<[id |-> matches.creditMatches[1].accountId]>>,
              confidence |-> MathMin(matches.debitMatches[1].confidence,
                                     matches.creditMatches[1].confidence)]
        ELSE NoResult

\* tryAccountMatching with || in place of && in the test of the two accounts.
tryAccountMatchingEitherSide(am, transaction) ==
  LET debitEntry == FindEntry(transaction, S_debit)
      creditEntry == FindEntry(transaction, S_credit)
  IN  IF debitEntry = <<>> \/ creditEntry = <<>> THEN NoResult
      ELSE LET debitAccount == findMatchingAccount(am, debitEntry[1], transaction)
               creditAccount == findMatchingAccount(am, creditEntry[1], transaction)
           IN  IF debitAccount # <<>> \/ creditAccount # <<>>
                 THEN [debitAccount |-> debitAccount, creditAccount |-> creditAccount,
                       confidence |-> Frac(6, 10)]
                 ELSE NoResult

\* tryAccountMatching with the confidence of a full match.
tryAccountMatchingFullConfidence(am, transaction) ==
  LET debitEntry == FindEntry(transaction, S_debit)
      creditEntry == FindEntry(transaction, S_credit)
  IN  IF debitEntry = <<>> \/ creditEntry = <<>> THEN NoResult
      ELSE LET debitAccount == findMatchingAccount(am, debitEntry[1], transaction)
               creditAccount == findMatchingAccount(am, creditEntry[1], transaction)
           IN  IF debitAccount # <<>> /\ creditAccount # <<>>
                 THEN [debitAccount |-> debitAccount, creditAccount |-> creditAccount,
                       confidence |-> Frac(1, 1)]
                 ELSE NoResult

\* tryAccountMatching without the test of the two accounts found.
tryAccountMatchingUntested(am, transaction) ==
  LET debitEntry == FindEntry(transaction, S_debit)
      creditEntry == FindEntry(transaction, S_credit)
  IN  IF debitEntry = <<>> \/ creditEntry = <<>> THEN NoResult
      ELSE [debitAccount |-> findMatchingAccount(am, debitEntry[1], transaction),
            creditAccount |-> findMatchingAccount(am, creditEntry[1], transaction),
            confidence |-> Frac(6, 10)]

\* A missing entry throws inside the try; the catch returns { confidence: 0 }.
tryAccountMatching(am, transaction) ==
  LET debitEntry == FindEntry(transaction, S_debit)
      creditEntry == FindEntry(transaction, S_credit)
  IN  IF debitEntry = <<>> \/ creditEntry = <<>> THEN NoResult
      ELSE LET debitAccount == findMatchingAccount(am, debitEntry[1], transaction)
               creditAccount == findMatchingAccount(am, creditEntry[1], transaction)
           IN  IF debitAccount # <<>> /\ creditAccount # <<>>
                 THEN [debitAccount |-> debitAccount, creditAccount |-> creditAccount,
                       confidence |-> Frac(6, 10)]
                 ELSE NoResult

\* Whether a catch block runs during tryAccountMatching: its own, on a
\* missing entry, or findMatchingAccount's.
tryAccountMatchingCaught(am, transaction) ==
  LET debitEntry == FindEntry(transaction, S_debit)
      creditEntry == FindEntry(transaction, S_credit)
  IN  \/ debitEntry = <<>>
      \/ creditEntry = <<>>
      \/ findMatchingAccountCaught(am, debitEntry[1], transaction)
      \/ findMatchingAccountCaught(am, creditEntry[1], transaction)

----------------------------------------------------------------------------
(* The inputs: accounts, charts, standards and transactions.               *)

Account(id, code, name, description, type, isActive) ==
  [id |-> id, code |-> code, name |-> name, description |-> description,
   type |-> type, subtype |-> <<"c","u","r","r","e","n","t">>, isActive |-> isActive]

acctCash == Account("cash", <<"0","1","0","0">>, <<"C","a","s","h">>, Undefined, S_asset, TRUE)
acctLoan == Account("loan", <<"1","0","0">>, <<"L","o","a","n">>, Undefined, S_liability, TRUE)
acctRent ==
  Account("rent", <<"5","2","0","0">>, <<"R","e","n","t">>,
          <<"O","f","f","i","c","e"," ","r","e","n","t">>, S_expense, TRUE)
acctOld ==
  Account("old", <<"5","2","0","0">>, <<"O","l","d"," ","r","e","n","t">>, <<>>, S_expense, FALSE)
acctSales == Account("sales", <<"4","0","0">>, <<"S","a","l","e","s">>, Undefined, S_revenue, TRUE)
acctMisc == Account("misc", <<"N","-","A">>, <<"M","i","s","c">>, Undefined, S_liability, TRUE)
\* An account record whose code property is missing.
acctBad == Account("bad", Undefined, <<"B","a","d">>, Undefined, S_asset, TRUE)

ChartMain == <<acctLoan, acctCash, acctOld, acctRent, acctSales>>
ChartMisc == <<acctMisc, acctRent, acctSales>>
ChartBad == <<acctCash, acctBad, acctSales>>
ChartEmpty == <<>>

StandardFull ==
  [name |-> "full",
   signConventions |-> << <<S_asset, S_debit>>, <<S_liability, S_credit>>,
                          <<S_expense, S_debit>>, <<S_revenue, S_credit>> >>]
\* A standard without a convention for liabilities.
StandardPartial ==
  [name |-> "partial",
   signConventions |-> << <<S_asset, S_debit>>, <<S_expense, S_debit>>,
                          <<S_revenue, S_credit>> >>]

\* The (chart, standard) pairs a caller initializes with.
Setups ==
  { <<ChartMain, StandardFull>>, <<ChartMisc, StandardFull>>,
    <<ChartBad, StandardFull>>, <<ChartMain, StandardPartial>>,
    <<ChartEmpty, StandardFull>> }

Entry(accountNumber, type, amount) ==
  [accountNumber |-> accountNumber, type |-> type, amount |-> amount]

Amount500 == <<"5","0","0",".","0","0">>
Amount12 == <<"1","2",".","5","0">>

txRent ==
  [id |-> "t1", description |-> <<"R","e","n","t">>, customerName |-> Undefined,
   date |-> [day |-> 1, date |-> 1, lastDate |-> 31],
   entries |-> << Entry(<<"5","2","0","0">>, S_debit, Amount500),
                  Entry(<<"4","0","0">>, S_credit, Amount500) >>]
\* The same normalized description as txRent, and no credit entry.
txRentNoCredit ==
  [id |-> "t2", description |-> <<" ","r","e","n","t">>, customerName |-> Undefined,
   date |-> [day |-> 6, date |-> 14, lastDate |-> 30],
   entries |-> << Entry(<<"5","2","0","0">>, S_debit, Amount500) >>]
txCashSale ==
  [id |-> "t3", description |-> <<"C","a","s","h"," ","s","a","l","e","s">>,
   customerName |-> <<"A","c","m","e"," ","C","o","r","p">>,
   date |-> [day |-> 3, date |-> 30, lastDate |-> 30],
   entries |-> << Entry(<<"4","0","0">>, S_credit, Amount12),
                  Entry(<<"0","1","0","0">>, S_debit, Amount12) >>]
\* The credit account number has no digit.
txMiscFee ==
  [id |-> "t4", description |-> <<"M","i","s","c"," ","f","e","e">>,
   customerName |-> Undefined,
   date |-> [day |-> 2, date |-> 9, lastDate |-> 31],
   entries |-> << Entry(<<"5","2","0","0">>, S_debit, Amount500),
                  Entry(<<"N","/","A">>, S_credit, Amount500) >>]
Transactions == {txRent, txRentNoCredit, txCashSale, txMiscFee}

\* The confirmed mappings a caller feeds back.
LearnTransactions == {txRent, txCashSale}
LearnAccountIds == {"rent", "sales"}

----------------------------------------------------------------------------
(* Bounds                                                                  *)

MaxInitialize == 2
MaxLearn == 1
MaxMapCalls == 1

----------------------------------------------------------------------------
(* State                                                                   *)

VARIABLES
  initialized,  \* MappingOrchestrator.initialized
  rag,          \* the ragMapper singleton
  am,           \* the accountMatcher singleton
  tpm,          \* the transactionPatternMatcher singleton
  apb,          \* the accountPatternBuilder singleton
  logger,       \* the mappingLogger singleton
  initCall,     \* the MappingOrchestrator.initialize call in flight, if any
  calls,        \* the mapTransaction call of each caller, between its awaits;
                \* consulted, accepted, caught, initializedAtCall and
                \* emptyChart (every stage so far ran on a component holding
                \* no account and no learned pattern) are history
  builtBy,      \* history: the ordinal of the initialize call that last wrote each component
  issued,       \* history: the numbers of initialize, learn and map calls made
  learned,      \* history: the learnFromTransaction calls since the last
                \* transactionPatternMatcher.initialize, oldest first
  cache,        \* SimilarityCalculator.cache
  cacheCalls,   \* history: the last two calls on the cache, oldest first
  store,        \* useTransactionStore: transactions
  autoMap       \* the autoMapTransactions call in flight, if any

vars == <<initialized, rag, am, tpm, apb, logger, initCall, calls, builtBy, issued,
          learned, cache, cacheCalls, store, autoMap>>

\* What the orchestrator and its stages never touch.
otherVars == <<cache, cacheCalls, store, autoMap>>

Callers == {"caller1"}

NoAutoMap ==
  [pc |-> "idle", companyId |-> "", accounts |-> <<>>, standard |-> <<>>,
   queue |-> <<>>, outcome |-> "none"]

NoInitCall == [pc |-> "idle", accounts |-> <<>>, standard |-> <<>>, outcome |-> "none"]

IdleCall ==
  [pc |-> "idle", transaction |-> <<>>, embedding |-> <<>>,
   ragResult |-> NoResult, patternResult |-> NoResult, matchResult |-> NoResult,
   result |-> NoResult, consulted |-> <<>>, accepted |-> "none", caught |-> {},
   initializedAtCall |-> FALSE, emptyChart |-> FALSE]

Init ==
  /\ initialized = FALSE
  /\ rag = RAGMapperNew
  /\ am = AccountMatcherNew
  /\ tpm = TransactionPatternMatcherNew
  /\ apb = AccountPatternBuilderNew
  /\ logger = MappingLoggerNew
  /\ initCall = NoInitCall
  /\ calls = [c \in Callers |-> IdleCall]
  /\ builtBy = [rag |-> 0, am |-> 0, tpm |-> 0, apb |-> 0]
  /\ issued = [initialize |-> 0, learn |-> 0, map |-> 0]
  /\ learned = <<>>
  /\ cache = <<>>
  /\ cacheCalls = <<>>
  /\ store = <<>>
  /\ autoMap = NoAutoMap

----------------------------------------------------------------------------
(* MappingOrchestrator.initialize: the code up to the await of              *)
(* ragMapper.initialize, whose synchronous body rebuilds the RAG indexes.  *)

InitializeStart(accounts, standard) ==
  /\ initCall.pc = "idle"
  /\ issued.initialize < MaxInitialize
  /\ rag' = ragInitialize(accounts, standard)
  /\ initCall' = [pc |-> "awaitingRag", accounts |-> accounts,
                  standard |-> <<standard>>, outcome |-> "pending"]
  /\ issued' = [issued EXCEPT !.initialize = @ + 1]
  /\ builtBy' = [builtBy EXCEPT !.rag = issued.initialize + 1]
  /\ UNCHANGED <<initialized, am, tpm, apb, logger, calls>>
  /\ UNCHANGED <<learned, otherVars>>

(* The continuation: accountMatcher.initialize, transactionPatternMatcher  *)
(* .initialize, accountPatternBuilder.buildPatterns, initialized = true;   *)
(* a throw skips the rest and is re-thrown to the caller.                  *)
InitializeFinish ==
  /\ initCall.pc = "awaitingRag"
  /\ LET r == amInitialize(initCall.accounts, initCall.standard[1])
     IN  /\ am' = [accounts |-> r.accounts, standard |-> r.standard,
                   accountPatterns |-> r.accountPatterns]
         /\ IF r.threw
              THEN /\ initCall' = [NoInitCall EXCEPT !.outcome = "threw"]
                   /\ builtBy' = [builtBy EXCEPT !.am = issued.initialize]
                   /\ UNCHANGED <<tpm, apb, initialized>>
              ELSE /\ tpm' = tpmInitialize(tpm)
                   /\ apb' = buildPatterns(apb, initCall.accounts)
                   /\ initialized' = TRUE
                   /\ initCall' = [NoInitCall EXCEPT !.outcome = "completed"]
                   /\ builtBy' = [builtBy EXCEPT !.am = issued.initialize,
                                                 !.tpm = issued.initialize,
                                                 !.apb = issued.initialize]
  /\ UNCHANGED <<rag, logger, calls, issued>>
  /\ learned' = IF amInitialize(initCall.accounts, initCall.standard[1]).threw
                  THEN learned ELSE <<>>
  /\ UNCHANGED otherVars

----------------------------------------------------------------------------
(* TransactionPatternMatcher.learnFromTransaction                          *)

LearnFromTransaction(transaction, debitAccountId, creditAccountId) ==
  /\ issued.learn < MaxLearn
  /\ tpm' = learnFromTransaction(tpm, transaction, debitAccountId, creditAccountId)
  /\ issued' = [issued EXCEPT !.learn = @ + 1]
  /\ UNCHANGED <<initialized, rag, am, apb, logger, initCall, calls, builtBy>>
  /\ learned' = Append(learned, [transaction |-> transaction,
                               debit |-> debitAccountId, credit |-> creditAccountId])
  /\ UNCHANGED otherVars

----------------------------------------------------------------------------
(* MappingOrchestrator.mapTransaction, one action per stretch of code      *)
(* between two awaits.                                                     *)

CanCall(c) == calls[c].pc \in {"idle", "returned", "threw"} /\ issued.map < MaxMapCalls

\* The guard placed after mappingLogger.startAttempt instead of before it.
MapTransactionGuardAfterStartAttempt(c, transaction) ==
  /\ CanCall(c)
  /\ ~initialized
  /\ logger' = startAttempt(logger, transaction.id)
  /\ calls' = [calls EXCEPT ![c] = [IdleCall EXCEPT !.pc = "threw",
                                                    !.transaction = <<transaction>>]]
  /\ issued' = [issued EXCEPT !.map = @ + 1]
  /\ UNCHANGED <<initialized, rag, am, tpm, apb, initCall, builtBy>>
  /\ UNCHANGED <<learned, otherVars>>

\* if (!this.initialized) throw new Error('Mapping orchestrator not initialized')
MapTransactionNotInitialized(c, transaction) ==
  /\ CanCall(c)
  /\ ~initialized
  /\ calls' = [calls EXCEPT ![c] = [IdleCall EXCEPT !.pc = "threw",
                                                    !.transaction = <<transaction>>]]
  /\ issued' = [issued EXCEPT !.map = @ + 1]
  /\ UNCHANGED <<initialized, rag, am, tpm, apb, logger, initCall, builtBy>>
  /\ UNCHANGED <<learned, otherVars>>

\* startAttempt, then ragMapper.mapTransaction up to its await: the features
\* and the transaction embedding.
MapTransactionStart(c, transaction) ==
  /\ CanCall(c)
  /\ initialized
  /\ logger' = startAttempt(logger, transaction.id)
  /\ calls' = [calls EXCEPT ![c] =
                 [IdleCall EXCEPT
                    !.pc = "embedded",
                    !.initializedAtCall = initialized,
                    !.emptyChart = (rag.accounts = <<>>),
                    !.transaction = <<transaction>>,
                    !.embedding = createTransactionEmbedding(rag, transaction,
                                                             extractFeatures(transaction)),
                    !.consulted = <<"rag">>]]
  /\ issued' = [issued EXCEPT !.map = @ + 1]
  /\ UNCHANGED <<initialized, rag, am, tpm, apb, initCall, builtBy>>
  /\ UNCHANGED <<learned, otherVars>>

\* ragMapper.mapTransaction after its await.
MapTransactionRag(c) ==
  /\ calls[c].pc = "embedded"
  /\ calls' = [calls EXCEPT ![c].pc = "ragDone",
                            ![c].emptyChart = @ /\ rag.accounts = <<>>,
                            ![c].ragResult =
                              ragMapTransaction(rag, calls[c].embedding,
                                                calls[c].transaction[1]),
                            ![c].caught =
                              IF ragMapTransactionCaught(rag, calls[c].embedding,
                                                         calls[c].transaction[1])
                                THEN {"rag"} ELSE {}]
  /\ UNCHANGED <<initialized, rag, am, tpm, apb, logger, initCall, builtBy, issued>>
  /\ UNCHANGED <<learned, otherVars>>

\* Step 1's test, and tryPatternMatching when it is not met.
MapTransactionAfterRag(c) ==
  /\ calls[c].pc = "ragDone"
  /\ IF GreaterThan(calls[c].ragResult.confidence, Frac(8, 10))
       THEN /\ logger' = endAttempt(logger, calls[c].transaction[1].id, TRUE)
            /\ calls' = [calls EXCEPT ![c].pc = "returned",
                                      ![c].result = calls[c].ragResult,
                                      ![c].accepted = "rag"]
       ELSE /\ calls' = [calls EXCEPT
                           ![c].pc = "patternDone",
                           ![c].patternResult =
                             tryPatternMatching(tpm, calls[c].transaction[1]),
                           ![c].consulted = Append(@, "pattern"),
                           ![c].emptyChart = @ /\ tpm = TransactionPatternMatcherNew,
                           ![c].caught =
                             IF findMatchesCaught(tpm, calls[c].transaction[1])
                               THEN @ \cup {"pattern"} ELSE @]
            /\ UNCHANGED logger
  /\ UNCHANGED <<initialized, rag, am, tpm, apb, initCall, builtBy, issued>>
  /\ UNCHANGED <<learned, otherVars>>

\* Step 2 with the pattern result never accepted: the account stage is
\* always consulted.
MapTransactionAfterPatternNeverAccepts(c) ==
  /\ calls[c].pc = "patternDone"
  /\ calls' = [calls EXCEPT
                 ![c].pc = "accountDone",
                 ![c].matchResult = tryAccountMatching(am, calls[c].transaction[1]),
                 ![c].consulted = Append(@, "account"),
                 ![c].emptyChart = @ /\ am.accounts = <<>>]
  /\ UNCHANGED <<initialized, rag, am, tpm, apb, logger, initCall, builtBy, issued>>
  /\ UNCHANGED <<learned, otherVars>>

\* Step 2's test, and tryAccountMatching when it is not met.
MapTransactionAfterPattern(c) ==
  /\ calls[c].pc = "patternDone"
  /\ IF GreaterThan(calls[c].patternResult.confidence, Frac(7, 10))
       THEN /\ logger' = endAttempt(logger, calls[c].transaction[1].id, TRUE)
            /\ calls' = [calls EXCEPT ![c].pc = "returned",
                                      ![c].result = calls[c].patternResult,
                                      ![c].accepted = "pattern"]
       ELSE /\ calls' = [calls EXCEPT
                           ![c].pc = "accountDone",
                           ![c].matchResult =
                             tryAccountMatching(am, calls[c].transaction[1]),
                           ![c].consulted = Append(@, "account"),
                           ![c].emptyChart = @ /\ am.accounts = <<>>,
                           ![c].caught =
                             IF tryAccountMatchingCaught(am, calls[c].transaction[1])
                               THEN @ \cup {"account"} ELSE @]
            /\ UNCHANGED logger
  /\ UNCHANGED <<initialized, rag, am, tpm, apb, initCall, builtBy, issued>>
  /\ UNCHANGED <<learned, otherVars>>

\* Step 3 with the accepted account result fed back into the learned
\* tables.
MapTransactionAfterAccountLearns(c) ==
  /\ calls[c].pc = "accountDone"
  /\ IF GreaterThan(calls[c].matchResult.confidence, Zero)
       THEN /\ logger' = endAttempt(logger, calls[c].transaction[1].id, TRUE)
            /\ calls' = [calls EXCEPT ![c].pc = "returned",
                                      ![c].result = calls[c].matchResult,
                                      ![c].accepted = "account"]
            /\ tpm' = learnFromTransaction(tpm, calls[c].transaction[1],
                                           calls[c].matchResult.debitAccount[1].id,
                                           calls[c].matchResult.creditAccount[1].id)
       ELSE /\ logger' = endAttempt(logger, calls[c].transaction[1].id, FALSE)
            /\ calls' = [calls EXCEPT ![c].pc = "returned",
                                      ![c].result = NoResult,
                                      ![c].accepted = "none"]
            /\ UNCHANGED tpm
  /\ UNCHANGED <<initialized, rag, am, apb, initCall, builtBy, issued>>
  /\ UNCHANGED <<learned, otherVars>>

\* Step 3's test, and the unmapped result.
MapTransactionAfterAccount(c) ==
  /\ calls[c].pc = "accountDone"
  /\ IF GreaterThan(calls[c].matchResult.confidence, Zero)
       THEN /\ logger' = endAttempt(logger, calls[c].transaction[1].id, TRUE)
            /\ calls' = [calls EXCEPT ![c].pc = "returned",
                                      ![c].result = calls[c].matchResult,
                                      ![c].accepted = "account"]
       ELSE /\ logger' = endAttempt(logger, calls[c].transaction[1].id, FALSE)
            /\ calls' = [calls EXCEPT ![c].pc = "returned",
                                      ![c].result = NoResult,
                                      ![c].accepted = "none"]
  /\ UNCHANGED <<initialized, rag, am, tpm, apb, initCall, builtBy, issued>>
  /\ UNCHANGED <<learned, otherVars>>

Next ==
  \/ \E setup \in Setups : InitializeStart(setup[1], setup[2])
  \/ InitializeFinish
  \/ \E transaction \in LearnTransactions, d \in LearnAccountIds, c \in LearnAccountIds :
       LearnFromTransaction(transaction, d, c)
  \/ \E c \in DOMAIN calls, transaction \in Transactions :
       MapTransactionNotInitialized(c, transaction)
  \/ \E c \in DOMAIN calls, transaction \in Transactions : MapTransactionStart(c, transaction)
  \/ \E c \in DOMAIN calls : MapTransactionRag(c)
  \/ \E c \in DOMAIN calls : MapTransactionAfterRag(c)
  \/ \E c \in DOMAIN calls : MapTransactionAfterPattern(c)
  \/ \E c \in DOMAIN calls : MapTransactionAfterAccount(c)

Spec == Init /\ [][Next]_vars

----------------------------------------------------------------------------
(* Properties                                                              *)

Stages == <<"rag", "pattern", "account">>
Running == {"embedded", "ragDone", "patternDone", "accountDone"}
IsPrefix(s, t) == Len(s) <= Len(t) /\ SubSeq(t, 1, Len(s)) = s
IsZero(x) == x.kind = "num" /\ x.p = 0
HasBothAccounts(r) == r.debitAccount # <<>> /\ r.creditAccount # <<>>
HasNoAccount(r) == r.debitAccount = <<>> /\ r.creditAccount = <<>>

\* C1: in every mapTransaction call on an initialized orchestrator the stages
\* are consulted in the order RAGMapper, TransactionPatternMatcher,
\* AccountMatcher; the pattern stage is consulted only when the RAG confidence
\* is not > 0.8, the account stage only when, besides, the pattern confidence
\* is not > 0.7; and the call returns the result of the first accepted stage
\* (the unmapped result when none is accepted).
C1_CascadeOrder ==
  \A c \in DOMAIN calls :
    LET call == calls[c]
        ragAccepted == GreaterThan(call.ragResult.confidence, Frac(8, 10))
        patternAccepted == GreaterThan(call.patternResult.confidence, Frac(7, 10))
        accountAccepted == GreaterThan(call.matchResult.confidence, Zero)
    IN  /\ IsPrefix(call.consulted, Stages)
        /\ call.pc \in Running \cup {"returned"} => Len(call.consulted) >= 1
        /\ Len(call.consulted) >= 2 => ~ragAccepted
        /\ Len(call.consulted) >= 3 => ~ragAccepted /\ ~patternAccepted
        /\ call.pc = "returned" =>
             \/ /\ ragAccepted
                /\ call.consulted = <<"rag">>
                /\ call.result = call.ragResult
             \/ /\ ~ragAccepted /\ patternAccepted
                /\ call.consulted = <<"rag", "pattern">>
                /\ call.result = call.patternResult
             \/ /\ ~ragAccepted /\ ~patternAccepted /\ accountAccepted
                /\ call.consulted = Stages
                /\ call.result = call.matchResult
             \/ /\ ~ragAccepted /\ ~patternAccepted /\ ~accountAccepted
                /\ call.consulted = Stages
                /\ call.result = NoResult

\* A call that stopped at the pattern stage after a RAG result that was
\* positive and not accepted.
C1_Witness ==
  \E c \in DOMAIN calls :
    /\ calls[c].pc = "returned"
    /\ calls[c].consulted = <<"rag", "pattern">>
    /\ GreaterThan(calls[c].ragResult.confidence, Zero)
    /\ calls[c].result = calls[c].patternResult

\* C2: every result of mapTransaction that carries both accounts has
\* debitAccount.id different from creditAccount.id, whatever has been
\* initialized and learned before.
C2_DistinctAccounts ==
  \A c \in DOMAIN calls :
    (calls[c].pc = "returned" /\ HasBothAccounts(calls[c].result)) =>
      calls[c].result.debitAccount[1].id # calls[c].result.creditAccount[1].id

\* C3: every confidence is in [0,1]: the one RAGMapper.mapTransaction
\* produces, the one of each candidate findMatches returns for any
\* transaction in the current tables, and the one mapTransaction returns.
C3_ConfidenceInUnitInterval ==
  /\ \A c \in DOMAIN calls :
       /\ InUnitInterval(ToNumber(calls[c].ragResult.confidence))
       /\ InUnitInterval(ToNumber(calls[c].result.confidence))
  /\ \A transaction \in Transactions :
       LET matches == findMatches(tpm, transaction)
       IN  /\ \A i \in DOMAIN matches.debitMatches :
                InUnitInterval(ToNumber(matches.debitMatches[i].confidence))
           /\ \A i \in DOMAIN matches.creditMatches :
                InUnitInterval(ToNumber(matches.creditMatches[i].confidence))

\* C4: once initialize has completed mapTransaction never throws; a failure
\* raised inside a stage is caught and that stage counts as returning zero
\* confidence, the cascade goes on to the next stage, and a call in which no
\* stage is accepted returns confidence 0.
C4_StageFailureIsZeroConfidence ==
  \A c \in DOMAIN calls :
    LET call == calls[c]
    IN  /\ call.initializedAtCall => call.pc # "threw"
        /\ "rag" \in call.caught =>
             /\ IsZero(call.ragResult.confidence)
             /\ call.pc \in {"patternDone", "accountDone", "returned"} =>
                  Len(call.consulted) >= 2
        /\ "pattern" \in call.caught =>
             /\ IsZero(call.patternResult.confidence)
             /\ call.pc \in {"accountDone", "returned"} => Len(call.consulted) >= 3
        /\ "account" \in call.caught => IsZero(call.matchResult.confidence)
        /\ (call.pc = "returned" /\ call.accepted = "none") =>
             IsZero(call.result.confidence)

\* C5: a mapTransaction call made while no initialize call has run to
\* completion throws NotInitialized: no stage is consulted and the logger
\* records no attempt.
C5_NotInitialized ==
  [][\A c \in DOMAIN calls :
       (~initialized /\ calls'[c] # calls[c]) =>
         /\ calls'[c].pc = "threw"
         /\ calls'[c].consulted = <<>>
         /\ logger' = logger
         /\ UNCHANGED <<rag, am, tpm, apb, initialized>>]_vars

\* A call that threw while an initialize call was still in flight, with no
\* attempt counted.
C5_Witness ==
  \E c \in DOMAIN calls :
    /\ calls[c].pc = "threw"
    /\ initCall.pc = "awaitingRag"
    /\ ~initialized
    /\ logger.attempts.total = 0

\* C6: setup is all-or-nothing: after an initialize call has failed, no
\* mapTransaction call runs over stage indexes some of which were built by
\* the failed initialize and others by an earlier one.
C6_InitializeAllOrNothing ==
  \A c \in DOMAIN calls :
    (calls[c].pc \in Running /\ initCall.pc = "idle" /\ initCall.outcome = "threw") =>
      /\ builtBy.rag = builtBy.am
      /\ builtBy.am = builtBy.tpm
      /\ builtBy.tpm = builtBy.apb

IsMalformed(transaction) ==
  FindEntry(transaction, S_debit) = <<>> \/ FindEntry(transaction, S_credit) = <<>>

\* C7: for a transaction without a debit entry or without a credit entry
\* mapTransaction returns confidence 0 and no account, whatever has been
\* learned before.
C7_MalformedIsZeroConfidence ==
  \A c \in DOMAIN calls :
    (calls[c].pc = "returned" /\ IsMalformed(calls[c].transaction[1])) =>
      IsZero(calls[c].result.confidence) /\ HasNoAccount(calls[c].result)

\* C8: a result returned by mapTransaction either carries both accounts, or
\* has confidence 0 and carries none.
C8_BothAccountsOrNone ==
  \A c \in DOMAIN calls :
    calls[c].pc = "returned" =>
      \/ HasBothAccounts(calls[c].result)
      \/ HasNoAccount(calls[c].result) /\ IsZero(calls[c].result.confidence)

\* A call that returned the unmapped result although the account stage had
\* resolved the debit side of the transaction (and not the credit side).
C8_Witness ==
  \E c \in DOMAIN calls :
    /\ calls[c].pc = "returned"
    /\ calls[c].accepted = "none"
    /\ HasNoAccount(calls[c].result)
    /\ IsZero(calls[c].result.confidence)
    /\ LET transaction == calls[c].transaction[1]
       IN  /\ ~IsMalformed(transaction)
           /\ findMatchingAccount(am, FindEntry(transaction, S_debit)[1],
                                  transaction) # <<>>
           /\ findMatchingAccount(am, FindEntry(transaction, S_credit)[1],
                                  transaction) = <<>>

\* The entries findMatchingAccount is probed with in every state.
ProbeEntries ==
  UNION {Range(t.entries) : t \in Transactions}
    \cup {Entry(<<"0","1","0","0">>, S_credit, Amount12),
          Entry(<<"1","0","0">>, S_credit, Amount12),
          Entry(<<"1","0","0">>, S_debit, Amount12),
          Entry(<<"0","0","1","0","0">>, S_credit, Amount12),
          Entry(<<"0","0","0">>, S_credit, Amount500),
          Entry(<<"5","2","0","0">>, S_credit, Amount500)}

ExactAccounts(accountNumber) ==
  {i \in DOMAIN am.accounts :
     am.accounts[i].isActive /\ am.accounts[i].code = accountNumber}

\* C9: when some active account's code equals the entry's accountNumber,
\* findMatchingAccount is decided by the first such account alone: it is
\* returned if its normal balance side is the entry's, nothing is returned
\* otherwise, and the transaction makes no difference.
C9_ExactMatchWins ==
  \A entry \in ProbeEntries, transaction \in Transactions :
    ExactAccounts(entry.accountNumber) # {} =>
      LET first == CHOOSE i \in ExactAccounts(entry.accountNumber) :
                     \A j \in ExactAccounts(entry.accountNumber) : i <= j
          account == am.accounts[first]
          signConvention == signConventionOf(am.standard[1], account.type)
          sideOk == \/ am.standard = <<>>
                    \/ signConvention # <<>> /\ signConvention[1].normalBalance = entry.type
      IN  findMatchingAccount(am, entry, transaction)
            = IF sideOk THEN <<account>> ELSE <<>>

\* The chart holds the liability "100" before the asset "0100": the fuzzy
\* code step alone answers "100" for the debit entry "0100", and
\* findMatchingAccount returns the exact "0100".
C9_Witness ==
  /\ am.accounts = ChartMain
  /\ findFuzzyCodeMatch(am, <<"0","1","0","0">>).account = <<acctLoan>>
  /\ findMatchingAccount(am, txCashSale.entries[2], txCashSale) = <<acctCash>>

\* C10: an accountNumber that normalizes to the empty string is never
\* matched by the fuzzy code step, not even with an account whose code
\* normalizes to the empty string too.
C10_EmptyNormalizedNeverMatches ==
  \A entry \in ProbeEntries :
    normalizeCode(entry.accountNumber) = <<>> =>
      findFuzzyCodeMatch(am, entry.accountNumber).account = <<>>

\* C11: every account findMatchingAccount returns has an account type whose
\* sign convention exists in the standard and has the entry's type as normal
\* balance; a code candidate with another normal balance yields no account.
C11_SignConventionIsHardGate ==
  \A entry \in ProbeEntries, transaction \in Transactions :
    LET found == findMatchingAccount(am, entry, transaction)
    IN  found # <<>> =>
          LET signConvention == signConventionOf(am.standard[1], found[1].type)
          IN  /\ am.standard # <<>>
              /\ signConvention # <<>>
              /\ signConvention[1].normalBalance = entry.type

\* The fuzzy code candidate of "00100" is the liability "100": the debit
\* entry gets no account, the credit entry gets that account.
C11_Witness ==
  /\ am.accounts = ChartMain
  /\ findFuzzyCodeMatch(am, <<"0","0","1","0","0">>).account = <<acctLoan>>
  /\ findMatchingAccount(am, Entry(<<"0","0","1","0","0">>, S_debit, Amount12),
                         txCashSale) = <<>>
  /\ findMatchingAccount(am, Entry(<<"0","0","1","0","0">>, S_credit, Amount12),
                         txCashSale) = <<acctLoan>>

----------------------------------------------------------------------------
(* TextProcessor.calculateSimilarity: string-similarity's compareTwoStrings *)
(* (the Dice coefficient of the character bigrams) of the lowercased texts. *)

RemoveWhitespace(s) ==
  LET NotSpace(c) == ~IsSpace(c)
  IN  SelectSeq(s, NotSpace)

Bigrams(s) == [i \in 1..(Len(s) - 1) |-> <<s[i], s[i + 1]>>]

RemoveFirst(s, x) ==
  LET i == IndexOf(s, x)
  IN  IF i = 0 THEN s ELSE SubSeq(s, 1, i - 1) \o SubSeq(s, i + 1, Len(s))

\* The bigrams of the second string that still find a partner among the
\* bigrams of the first, each partner used once.
RECURSIVE IntersectionSize(_, _)
IntersectionSize(firstBigrams, secondBigrams) ==
  IF secondBigrams = <<>> THEN 0
  ELSE IF IndexOf(firstBigrams, Head(secondBigrams)) # 0
    THEN 1 + IntersectionSize(RemoveFirst(firstBigrams, Head(secondBigrams)),
                              Tail(secondBigrams))
    ELSE IntersectionSize(firstBigrams, Tail(secondBigrams))

compareTwoStrings(first, second) ==
  LET a == RemoveWhitespace(first)
      b == RemoveWhitespace(second)
  IN  IF a = b THEN Frac(1, 1)
      ELSE IF Len(a) < 2 \/ Len(b) < 2 THEN Zero
      ELSE Frac(2 * IntersectionSize(Bigrams(a), Bigrams(b)), Len(a) + Len(b) - 2)

textCalculateSimilarity(text1, text2) ==
  compareTwoStrings(ToLowerCase(text1), ToLowerCase(text2))

----------------------------------------------------------------------------
(* TransactionPatternMatcher on its own: learnFromTransaction and           *)
(* initialize called directly, with more calls and more inputs than the     *)
(* cascade above is run with.                                               *)

\* The vendor of txCashSale written differently, and another description.
txAcmeRent ==
  [id |-> "t5", description |-> <<"R","E","N","T"," ">>,
   customerName |-> <<" ","A","C","M","E"," ","c","o","r","p">>,
   date |-> [day |-> 4, date |-> 2, lastDate |-> 30],
   entries |-> << Entry(<<"5","2","0","0">>, S_debit, Amount500),
                  Entry(<<"0","1","0","0">>, S_credit, Amount500) >>]
\* Close to the description of txRent and not equal to it once normalized.
txRents ==
  [id |-> "t6", description |-> <<"R","e","n","t","s">>, customerName |-> Undefined,
   date |-> [day |-> 5, date |-> 3, lastDate |-> 30],
   entries |-> << Entry(<<"5","2","0","0">>, S_debit, Amount500),
                  Entry(<<"4","0","0">>, S_credit, Amount500) >>]

TpmLearnTransactions == {txRent, txRentNoCredit, txCashSale, txAcmeRent}
TpmQueries == Transactions \cup {txAcmeRent, txRents}

MaxLearnTpm == 3
MaxInitializeTpm == 1

TpmLearnFromTransaction(transaction, debitAccountId, creditAccountId) ==
  /\ issued.learn < MaxLearnTpm
  /\ tpm' = learnFromTransaction(tpm, transaction, debitAccountId, creditAccountId)
  /\ issued' = [issued EXCEPT !.learn = @ + 1]
  /\ learned' = Append(learned, [transaction |-> transaction,
                                 debit |-> debitAccountId, credit |-> creditAccountId])
  /\ UNCHANGED <<initialized, rag, am, apb, logger, initCall, calls, builtBy, otherVars>>

\* TransactionPatternMatcher.initialize: the three tables are cleared.
TpmInitialize ==
  /\ issued.initialize < MaxInitializeTpm
  /\ tpm' = tpmInitialize(tpm)
  /\ issued' = [issued EXCEPT !.initialize = @ + 1]
  /\ learned' = <<>>
  /\ UNCHANGED <<initialized, rag, am, apb, logger, initCall, calls, builtBy, otherVars>>

NextTpm ==
  \/ \E transaction \in TpmLearnTransactions, d \in LearnAccountIds, c \in LearnAccountIds :
       TpmLearnFromTransaction(transaction, d, c)
  \/ TpmInitialize

SpecTpm == Init /\ [][NextTpm]_vars

----------------------------------------------------------------------------
(* Properties of TransactionPatternMatcher                                 *)

NormalizedDescription(call) == normalizeText(call.transaction.description)
NormalizedVendor(call) == normalizeText(call.transaction.customerName)
IsLastForDescription(i) ==
  \A j \in (i + 1)..Len(learned) :
    NormalizedDescription(learned[j]) # NormalizedDescription(learned[i])
IsLastForVendor(i) ==
  /\ HasCustomerName(learned[i].transaction)
  /\ \A j \in (i + 1)..Len(learned) :
       HasCustomerName(learned[j].transaction) =>
         NormalizedVendor(learned[j]) # NormalizedVendor(learned[i])
NumEq(x, y) == x.kind = "num" /\ y.kind = "num" /\ x.p * y.q = y.p * x.q

\* C12: after learnFromTransaction(tx, d, c), with no later initialize and no
\* later learnFromTransaction for the same normalized description, findMatches
\* on any transaction with that normalized description returns a debit list
\* headed by d and a credit list headed by c, both with confidence 0.95.
C12_HistoricalHit ==
  \A i \in DOMAIN learned :
    IsLastForDescription(i) =>
      \A q \in TpmQueries :
        normalizeText(q.description) = NormalizedDescription(learned[i]) =>
          LET matches == findMatches(tpm, q)
          IN  /\ matches.debitMatches # <<>>
              /\ matches.creditMatches # <<>>
              /\ Head(matches.debitMatches).accountId = learned[i].debit
              /\ Head(matches.creditMatches).accountId = learned[i].credit
              /\ NumEq(Head(matches.debitMatches).confidence, Frac(95, 100))
              /\ NumEq(Head(matches.creditMatches).confidence, Frac(95, 100))

\* A hit on a description written differently from the learned one, after
\* an earlier call for the same description had stored another pair.
C12_Witness ==
  \E i \in DOMAIN learned, q \in TpmQueries :
    /\ i > 1
    /\ IsLastForDescription(i)
    /\ NormalizedDescription(learned[1]) = NormalizedDescription(learned[i])
    /\ learned[1].debit # learned[i].debit
    /\ q.description # learned[i].transaction.description
    /\ normalizeText(q.description) = NormalizedDescription(learned[i])
    /\ Head(findMatches(tpm, q).debitMatches).accountId = learned[i].debit

\* C13: for a transaction whose normalized description is no historical key
\* and whose description has lexical similarity s > 0.7 with a learned
\* description, findMatches returns in the debit and in the credit list a
\* candidate for the learned pair with confidence s * 0.85, less than 0.95.
C13_FuzzyHistoricalCandidate ==
  \A q \in TpmQueries :
    \A k \in DOMAIN tpm.historicalPatterns :
      LET desc == tpm.historicalPatterns[k][1]
          pattern == tpm.historicalPatterns[k][2]
          s == textCalculateSimilarity(q.description, desc)
          matches == findMatches(tpm, q)
          IsFuzzy(m, accountId) ==
            /\ m.accountId = accountId
            /\ NumEq(m.confidence, TimesFrac(s, 85, 100))
            /\ GreaterThan(Frac(95, 100), m.confidence)
      IN  (~MapHas(tpm.historicalPatterns, normalizeText(q.description))
           /\ GreaterThan(s, Frac(7, 10))) =>
            /\ \E i \in DOMAIN matches.debitMatches :
                 IsFuzzy(matches.debitMatches[i], pattern.debit)
            /\ \E i \in DOMAIN matches.creditMatches :
                 IsFuzzy(matches.creditMatches[i], pattern.credit)

\* C14: the historical table holds, for each normalized description learned
\* since the last initialize, exactly the pair of the most recent call with
\* that description, one entry per key and nothing else; the vendor table
\* likewise for the normalized vendor names.
C14_LastWriteWins ==
  LET descKeys == {NormalizedDescription(learned[i]) : i \in DOMAIN learned}
      vendorCalls == {i \in DOMAIN learned : HasCustomerName(learned[i].transaction)}
      vendorKeys == {NormalizedVendor(learned[i]) : i \in vendorCalls}
      Pair(i) == [debit |-> learned[i].debit, credit |-> learned[i].credit]
  IN  /\ Len(tpm.historicalPatterns) = Cardinality(descKeys)
      /\ {tpm.historicalPatterns[k][1] : k \in DOMAIN tpm.historicalPatterns} = descKeys
      /\ \A i \in DOMAIN learned :
           IsLastForDescription(i) =>
             MapGet(tpm.historicalPatterns, NormalizedDescription(learned[i])) = Pair(i)
      /\ Len(tpm.vendorPatterns) = Cardinality(vendorKeys)
      /\ {tpm.vendorPatterns[k][1] : k \in DOMAIN tpm.vendorPatterns} = vendorKeys
      /\ \A i \in vendorCalls :
           IsLastForVendor(i) =>
             MapGet(tpm.vendorPatterns, NormalizedVendor(learned[i])) = Pair(i)

\* Three calls: the second overwrites the description of the first with
\* another pair, the third overwrites the vendor of the second.
C14_Witness ==
  /\ Len(learned) = 3
  /\ NormalizedDescription(learned[1]) = NormalizedDescription(learned[2])
  /\ learned[1].debit # learned[2].debit
  /\ HasCustomerName(learned[2].transaction)
  /\ HasCustomerName(learned[3].transaction)
  /\ NormalizedVendor(learned[2]) = NormalizedVendor(learned[3])
  /\ NormalizedDescription(learned[2]) # NormalizedDescription(learned[3])
  /\ learned[2].credit # learned[3].credit
  /\ Len(tpm.historicalPatterns) = 2
  /\ Len(tpm.vendorPatterns) = 1

IsRanked(list) ==
  \A i \in DOMAIN list :
    /\ list[i].confidence.kind = "num"
    /\ \A j \in DOMAIN list : i < j => ~GreaterThan(list[j].confidence, list[i].confidence)

\* C20: each list findMatches returns is ranked: the confidences do not
\* increase from head to tail, for every reachable content of the tables.
C20_ListsAreRanked ==
  \A q \in TpmQueries :
    /\ IsRanked(findMatches(tpm, q).debitMatches)
    /\ IsRanked(findMatches(tpm, q).creditMatches)

\* A list of two candidates, the historical one ahead of the vendor one.
C20_Witness ==
  \E q \in TpmQueries :
    LET list == findMatches(tpm, q).debitMatches
    IN  /\ Len(list) = 2
        /\ NumEq(list[1].confidence, Frac(95, 100))
        /\ NumEq(list[2].confidence, Frac(9, 10))
        /\ list[1].accountId # list[2].accountId

----------------------------------------------------------------------------
(* SimilarityCalculator: calculateTextSimilarity and its cache.             *)

\* The characters in the order of their UTF-16 code units.
AsciiOrder ==
  <<" ", "!", "-", ".", "/">> \o DigitChars \o UpperCase \o <<"_">> \o LowerCase \o <<"|">>
CharCode(c) == IndexOf(AsciiOrder, c)

\* a < b, as Array.prototype.sort compares two strings.
RECURSIVE StringLess(_, _)
StringLess(a, b) ==
  IF b = <<>> THEN FALSE
  ELSE IF a = <<>> THEN TRUE
  ELSE IF Head(a) = Head(b) THEN StringLess(Tail(a), Tail(b))
  ELSE CharCode(Head(a)) < CharCode(Head(b))

\* [text1, text2].sort()
SortTwo(text1, text2) ==
  IF StringLess(text2, text1) THEN <<text2, text1>> ELSE <<text1, text2>>

\* getCacheKey with the texts in the order given.
getCacheKeyAsGiven(text1, text2) == text1 \o <<"|">> \o text2

getCacheKey(text1, text2) ==
  LET sortedTexts == SortTwo(text1, text2)
  IN  sortedTexts[1] \o <<"|">> \o sortedTexts[2]

\* [cache, value, hit]: the cache after the call, the value returned and
\* whether it came from the cache.
calculateTextSimilarity(c, text1, text2) ==
  LET key == getCacheKey(text1, text2)
  IN  IF MapHas(c, key)
        THEN [cache |-> c, value |-> MapGet(c, key), hit |-> TRUE]
        ELSE LET similarity == textCalculateSimilarity(text1, text2)
             IN  [cache |-> MapSet(c, key, similarity), value |-> similarity,
                  hit |-> FALSE]

clearCache(c) == <<>>

getCacheSize(c) == Len(c)

\* The pairs ("Ab", "Ab|cd") and ("Ab|Ab", "cd") have the same key.
CacheTexts ==
  { <<"A","b">>, <<"A","b","|","c","d">>, <<"A","b","|","A","b">>, <<"c","d">> }

MaxCacheSize == 3

LastTwo(s) == IF Len(s) > 2 THEN SubSeq(s, Len(s) - 1, Len(s)) ELSE s

CalculateTextSimilarity(text1, text2) ==
  /\ getCacheSize(cache) < MaxCacheSize \/ MapHas(cache, getCacheKey(text1, text2))
  /\ LET r == calculateTextSimilarity(cache, text1, text2)
     IN  /\ cache' = r.cache
         /\ cacheCalls' =
              LastTwo(Append(cacheCalls,
                             [op |-> "calculateTextSimilarity",
                              text1 |-> text1, text2 |-> text2,
                              value |-> r.value, hit |-> r.hit,
                              sizeBefore |-> getCacheSize(cache),
                              sizeAfter |-> getCacheSize(r.cache)]))
  /\ UNCHANGED <<initialized, rag, am, tpm, apb, logger, initCall, calls, builtBy,
                 issued, learned, store, autoMap>>

ClearCache ==
  /\ cache' = clearCache(cache)
  /\ cacheCalls' =
       LastTwo(Append(cacheCalls,
                      [op |-> "clearCache", text1 |-> <<>>, text2 |-> <<>>,
                       value |-> Zero, hit |-> FALSE,
                       sizeBefore |-> getCacheSize(cache),
                       sizeAfter |-> getCacheSize(clearCache(cache))]))
  /\ UNCHANGED <<initialized, rag, am, tpm, apb, logger, initCall, calls, builtBy,
                 issued, learned, store, autoMap>>

NextCache ==
  \/ \E text1 \in CacheTexts, text2 \in CacheTexts : CalculateTextSimilarity(text1, text2)
  \/ ClearCache

SpecCache == Init /\ [][NextCache]_vars

\* C15: calculateTextSimilarity(a, b) and calculateTextSimilarity(b, a) return
\* the same value and use the same cache entry: called one after the other
\* on a cache without the pair they add one entry, and the second call is
\* served from the cache; clearCache leaves the cache with size 0.
C15_SymmetricAndCached ==
  /\ \A a \in CacheTexts, b \in CacheTexts :
       LET first == calculateTextSimilarity(cache, a, b)
           second == calculateTextSimilarity(first.cache, b, a)
       IN  /\ NumEq(first.value, second.value)
           /\ second.hit
           /\ second.cache = first.cache
           /\ getCacheSize(second.cache)
                = getCacheSize(cache) + (IF first.hit THEN 0 ELSE 1)
  /\ Len(cacheCalls) = 2 =>
       LET first == cacheCalls[1]
           second == cacheCalls[2]
       IN  (/\ first.op = "calculateTextSimilarity"
            /\ second.op = "calculateTextSimilarity"
            /\ second.text1 = first.text2
            /\ second.text2 = first.text1) =>
             /\ NumEq(first.value, second.value)
             /\ second.hit
             /\ second.sizeAfter = first.sizeBefore + (IF first.hit THEN 0 ELSE 1)
  /\ \A i \in DOMAIN cacheCalls :
       cacheCalls[i].op = "clearCache" => cacheCalls[i].sizeAfter = 0
  /\ (cacheCalls # <<>> /\ cacheCalls[Len(cacheCalls)].op = "clearCache") =>
       getCacheSize(cache) = 0

\* Two different texts compared in both orders on a cache that did not
\* hold the pair: one entry more, the second call served from the cache.
C15_Witness ==
  /\ Len(cacheCalls) = 2
  /\ cacheCalls[1].op = "calculateTextSimilarity"
  /\ cacheCalls[2].op = "calculateTextSimilarity"
  /\ cacheCalls[1].text1 # cacheCalls[1].text2
  /\ StringLess(cacheCalls[1].text2, cacheCalls[1].text1)
  /\ cacheCalls[2].text1 = cacheCalls[1].text2
  /\ cacheCalls[2].text2 = cacheCalls[1].text1
  /\ ~cacheCalls[1].hit
  /\ cacheCalls[2].hit
  /\ GreaterThan(cacheCalls[2].value, Zero)
  /\ cacheCalls[1].sizeBefore >= 1
  /\ cacheCalls[2].sizeAfter = cacheCalls[1].sizeBefore + 1

----------------------------------------------------------------------------
(* Properties of the account stage                                          *)

\* C16: the account stage resolves the debit entry and the credit entry
\* each with findMatchingAccount on that entry alone; its result carries the
\* two accounts found with confidence exactly 0.6 when both are found, and
\* otherwise has confidence 0 and no account. A result accepted from this
\* stage therefore has confidence exactly 0.6.
C16_AccountStageNeedsBothSides ==
  [][\A c \in DOMAIN calls :
       (calls[c].pc = "patternDone" /\ calls'[c].pc = "accountDone") =>
         LET transaction == calls[c].transaction[1]
             debitEntry == FindEntry(transaction, S_debit)
             creditEntry == FindEntry(transaction, S_credit)
             debitAccount ==
               IF debitEntry = <<>> THEN <<>>
               ELSE findMatchingAccount(am, debitEntry[1], transaction)
             creditAccount ==
               IF creditEntry = <<>> THEN <<>>
               ELSE findMatchingAccount(am, creditEntry[1], transaction)
             result == calls'[c].matchResult
         IN  IF /\ debitEntry # <<>> /\ creditEntry # <<>>
                /\ debitAccount # <<>> /\ creditAccount # <<>>
               THEN /\ result.debitAccount = debitAccount
                    /\ result.creditAccount = creditAccount
                    /\ NumEq(result.confidence, Frac(6, 10))
               ELSE /\ HasNoAccount(result)
                    /\ IsZero(result.confidence)]_vars

\* A call whose result was accepted from the account stage: both accounts
\* and confidence 0.6.
C16_Witness ==
  \E c \in DOMAIN calls :
    /\ calls[c].pc = "returned"
    /\ calls[c].accepted = "account"
    /\ HasBothAccounts(calls[c].result)
    /\ NumEq(calls[c].result.confidence, Frac(6, 10))
    /\ calls[c].result = calls[c].matchResult


\* C17: a mapTransaction call on an initialized orchestrator whose stages
\* all ran on an empty chart (no account in the RAG mapper and in the
\* account matcher, nothing learned) does not throw, gets confidence 0 and
\* no account from every stage, and returns confidence 0 with no accounts.
C17_EmptyChartIsZeroConfidence ==
  \A c \in DOMAIN calls :
    (calls[c].initializedAtCall /\ calls[c].emptyChart) =>
      /\ calls[c].pc # "threw"
      /\ IsZero(calls[c].ragResult.confidence) /\ HasNoAccount(calls[c].ragResult)
      /\ IsZero(calls[c].patternResult.confidence)
      /\ HasNoAccount(calls[c].patternResult)
      /\ IsZero(calls[c].matchResult.confidence) /\ HasNoAccount(calls[c].matchResult)
      /\ calls[c].caught = {} \/ IsMalformed(calls[c].transaction[1])
      /\ calls[c].pc = "returned" =>
           /\ calls[c].consulted = Stages
           /\ calls[c].accepted = "none"
           /\ IsZero(calls[c].result.confidence)
           /\ HasNoAccount(calls[c].result)

\* A well-formed transaction mapped over an empty chart that replaced a
\* chart with accounts: all three stages consulted, unmapped result.
C17_Witness ==
  \E c \in DOMAIN calls :
    /\ calls[c].pc = "returned"
    /\ calls[c].initializedAtCall
    /\ calls[c].emptyChart
    /\ ~IsMalformed(calls[c].transaction[1])
    /\ calls[c].consulted = Stages
    /\ rag.accounts = <<>>
    /\ am.accounts = <<>>
    /\ apb.patterns # <<>>
    /\ IsZero(calls[c].result.confidence)


----------------------------------------------------------------------------
(* Properties of AccountPatternBuilder                                      *)

\* C19: once buildPatterns has run, the pattern table holds one pattern per
\* account of the chart most recently supplied and no other pattern, and
\* the vector of every pattern is as long as the current vocabulary. (The
\* chart most recently supplied to buildPatterns is the account matcher's
\* chart whenever both were last written by the same initialize call.)
C19_PatternTableNeverStale ==
  (builtBy.apb > 0 /\ builtBy.apb = builtBy.am) =>
    /\ { apb.patterns[i][1] : i \in DOMAIN apb.patterns }
         = { am.accounts[i].id : i \in DOMAIN am.accounts }
    /\ \A i \in DOMAIN apb.patterns :
         Len(apb.patterns[i][2].vector) = Len(apb.vocabulary)


----------------------------------------------------------------------------
(* useTransactionStore: the transactions and the operations on them. A     *)
(* stored transaction is the ledger transaction with its companyId, its    *)
(* status and, per entry, the accountId and the status; updatedAt is not   *)
(* kept.                                                                   *)

StoreTransaction(transaction, companyId) ==
  [transaction |-> transaction, companyId |-> companyId, status |-> "pending",
   entries |-> [i \in DOMAIN transaction.entries |->
                  [accountId |-> <<>>, status |-> "pending"]]]

addTransactions(transactions, newTransactions) == transactions \o newTransactions

updateTransactionMapping(transactions, transactionId, debitAccountId, creditAccountId) ==
  [i \in DOMAIN transactions |->
     LET t == transactions[i]
     IN  IF t.transaction.id = transactionId
           THEN [t EXCEPT
                   !.entries =
                     [j \in DOMAIN t.entries |->
                        [accountId |->
                           <<IF t.transaction.entries[j].type = S_debit
                               THEN debitAccountId ELSE creditAccountId>>,
                         status |-> "mapped"]],
                   !.status = "mapped"]
           ELSE t]

approveTransactions(transactions, companyId) ==
  [i \in DOMAIN transactions |->
     LET t == transactions[i]
     IN  IF t.companyId = companyId /\ t.status = "mapped"
           THEN [t EXCEPT !.status = "approved"]
           ELSE t]

getTransactionsByCompany(transactions, companyId) ==
  LET OfCompany(t) == t.companyId = companyId
  IN  SelectSeq(transactions, OfCompany)

\* autoMapTransactions: the transactions to map.
pendingTransactions(transactions, companyId) ==
  LET IsPending(t) == t.companyId = companyId /\ t.status = "pending"
  IN  SelectSeq(transactions, IsPending)

\* MappingOrchestrator.mapTransaction: the tests on the three stage results.
cascade(ragResult, patternResult, matchResult) ==
  IF GreaterThan(ragResult.confidence, Frac(8, 10))
    THEN [result |-> ragResult, accepted |-> "rag"]
  ELSE IF GreaterThan(patternResult.confidence, Frac(7, 10))
    THEN [result |-> patternResult, accepted |-> "pattern"]
  ELSE IF GreaterThan(matchResult.confidence, Zero)
    THEN [result |-> matchResult, accepted |-> "account"]
  ELSE [result |-> NoResult, accepted |-> "none"]

\* MappingOrchestrator.mapTransaction on an initialized orchestrator, its
\* three stages run one after the other on the same component states.
mapTransaction(ragMapper, patternMatcher, accountMatcher, transaction) ==
  cascade(ragMapTransaction(ragMapper,
                            createTransactionEmbedding(ragMapper, transaction,
                                                       extractFeatures(transaction)),
                            transaction),
          tryPatternMatching(patternMatcher, transaction),
          tryAccountMatching(accountMatcher, transaction))

\* A variant that takes every result with two accounts, whatever its
\* confidence.
autoMapAppliesAnyConfidence(result) ==
  /\ GreaterThan(result.confidence, Zero)
  /\ result.debitAccount # <<>>
  /\ result.creditAccount # <<>>

\* if (result.confidence > 0.7 && result.debitAccount && result.creditAccount)
autoMapApplies(result) ==
  /\ GreaterThan(result.confidence, Frac(7, 10))
  /\ result.debitAccount # <<>>
  /\ result.creditAccount # <<>>

Companies == {"co1", "co2"}

\* The batches handed to addTransactions.
Batches ==
  { <<StoreTransaction(txRent, "co1"), StoreTransaction(txCashSale, "co1")>>,
    <<StoreTransaction(txMiscFee, "co2")>> }

\* The account ids of a manual mapping; handleAccountSelect passes '' for
\* the side the user did not pick.
ManualMappings == { <<"cash", "">> }

\* What useStandardStore gives autoMapTransactions: no active standard, or
\* an active standard and its chart.
StoreSetups ==
  { <<ChartMain, <<>> >>, <<ChartMain, <<StandardFull>> >>,
    <<ChartEmpty, <<StandardFull>> >>, <<ChartBad, <<StandardFull>> >> }

MaxStoreSize == 3
MaxAutoMap == 1

AddTransactions(newTransactions) ==
  /\ Len(store) + Len(newTransactions) <= MaxStoreSize
  /\ logger' = MappingLoggerNew
  /\ store' = addTransactions(store, newTransactions)
  /\ UNCHANGED <<initialized, rag, am, tpm, apb, initCall, calls, builtBy, issued,
                 learned, cache, cacheCalls, autoMap>>

UpdateTransactionMapping(transactionId, debitAccountId, creditAccountId) ==
  /\ store' = updateTransactionMapping(store, transactionId, debitAccountId,
                                       creditAccountId)
  /\ UNCHANGED <<initialized, rag, am, tpm, apb, logger, initCall, calls, builtBy,
                 issued, learned, cache, cacheCalls, autoMap>>

ApproveTransactions(companyId) ==
  /\ store' = approveTransactions(store, companyId)
  /\ UNCHANGED <<initialized, rag, am, tpm, apb, logger, initCall, calls, builtBy,
                 issued, learned, cache, cacheCalls, autoMap>>

\* autoMapTransactions up to the await of mappingOrchestrator.initialize: the
\* two checks, and the synchronous body of ragMapper.initialize.
AutoMapStart(companyId, accounts, activeStandard) ==
  /\ autoMap.pc = "idle"
  /\ issued.initialize < MaxAutoMap
  /\ IF activeStandard = <<>> \/ accounts = <<>>
       THEN /\ autoMap' = [NoAutoMap EXCEPT !.companyId = companyId,
                                            !.outcome = "threw"]
            /\ UNCHANGED <<rag, builtBy, issued>>
       ELSE /\ issued' = [issued EXCEPT !.initialize = @ + 1]
            /\ rag' = ragInitialize(accounts, activeStandard[1])
            /\ builtBy' = [builtBy EXCEPT !.rag = issued.initialize + 1]
            /\ autoMap' = [pc |-> "initializing", companyId |-> companyId,
                           accounts |-> accounts, standard |-> activeStandard,
                           queue |-> <<>>, outcome |-> "pending"]
  /\ UNCHANGED <<initialized, am, tpm, apb, logger, initCall, calls, learned, cache,
                 cacheCalls, store>>

\* The rest of initialize; then the pending transactions of the company are
\* read, and mapTransaction is called for the first of them (startAttempt).
\* A throw of initialize is thrown on to the caller.
AutoMapInitialized ==
  /\ autoMap.pc = "initializing"
  /\ \E r \in {amInitialize(autoMap.accounts, autoMap.standard[1])} :
     LET transactions == pendingTransactions(store, autoMap.companyId)
     IN  /\ am' = [accounts |-> r.accounts, standard |-> r.standard,
                   accountPatterns |-> r.accountPatterns]
         /\ IF r.threw
              THEN /\ autoMap' = [NoAutoMap EXCEPT !.companyId = autoMap.companyId,
                                                   !.outcome = "threw"]
                   /\ builtBy' = [builtBy EXCEPT !.am = issued.initialize]
                   /\ UNCHANGED <<tpm, apb, initialized, learned, logger>>
              ELSE /\ tpm' = tpmInitialize(tpm)
                   /\ learned' = <<>>
                   /\ apb' = buildPatterns(apb, autoMap.accounts)
                   /\ initialized' = TRUE
                   /\ builtBy' = [builtBy EXCEPT !.am = issued.initialize,
                                                 !.tpm = issued.initialize,
                                                 !.apb = issued.initialize]
                   /\ IF transactions = <<>>
                        THEN /\ autoMap' = [NoAutoMap EXCEPT
                                              !.companyId = autoMap.companyId,
                                              !.outcome = "completed"]
                             /\ UNCHANGED logger
                        ELSE /\ autoMap' = [autoMap EXCEPT !.pc = "mapping",
                                                           !.queue = transactions]
                             /\ logger' =
                                  startAttempt(logger, transactions[1].transaction.id)
  /\ UNCHANGED <<rag, initCall, calls, issued, cache, cacheCalls, store>>

\* The result of mapTransaction for the transaction at the head of the
\* queue arrives: endAttempt, the test of the result, updateTransactionMapping
\* when it is met, and the call of mapTransaction for the next transaction.
AutoMapResult ==
  /\ autoMap.pc = "mapping"
  /\ \E mapped \in {mapTransaction(rag, tpm, am, Head(autoMap.queue).transaction)} :
     LET transaction == Head(autoMap.queue).transaction
         rest == Tail(autoMap.queue)
         ended == endAttempt(logger, transaction.id, mapped.accepted # "none")
     IN  /\ store' =
              IF autoMapApplies(mapped.result)
                THEN updateTransactionMapping(store, transaction.id,
                                              mapped.result.debitAccount[1].id,
                                              mapped.result.creditAccount[1].id)
                ELSE store
         /\ IF rest = <<>>
              THEN /\ autoMap' = [NoAutoMap EXCEPT !.companyId = autoMap.companyId,
                                                   !.outcome = "completed"]
                   /\ logger' = ended
              ELSE /\ autoMap' = [autoMap EXCEPT !.queue = rest]
                   /\ logger' = startAttempt(ended, rest[1].transaction.id)
  /\ UNCHANGED <<initialized, rag, am, tpm, apb, initCall, calls, builtBy, issued,
                 learned, cache, cacheCalls>>

NextStore ==
  \/ \E newTransactions \in Batches : AddTransactions(newTransactions)
  \/ \E transaction \in Transactions, mapping \in ManualMappings :
       UpdateTransactionMapping(transaction.id, mapping[1], mapping[2])
  \/ \E companyId \in Companies : ApproveTransactions(companyId)
  \/ \E companyId \in Companies, setup \in StoreSetups :
       AutoMapStart(companyId, setup[1], setup[2])
  \/ AutoMapInitialized
  \/ AutoMapResult
  \/ LearnFromTransaction(txRent, "rent", "sales")

SpecStore == Init /\ [][NextStore]_vars

----------------------------------------------------------------------------
(* Properties of the transaction store                                      *)

StatusRank(status) ==
  CASE status = "pending" -> 1
    [] status = "mapped" -> 2
    [] status = "approved" -> 3

\* C18: no step of the store moves a transaction it already holds to an
\* earlier status of pending, mapped, approved (or removes it), and
\* approveTransactions changes the mapped transactions of the company to
\* approved and nothing else.
C18_StatusNeverMovesBackwards ==
  [][/\ Len(store') >= Len(store)
     /\ \A i \in DOMAIN store :
          /\ store'[i].transaction = store[i].transaction
          /\ StatusRank(store'[i].status) >= StatusRank(store[i].status)]_vars


----------------------------------------------------------------------------
(* Properties of RAGMapper                                                  *)

\* The scores of the accounts for an embedding and a transaction with a
\* debit entry.
RagScores(ragMapper, transactionEmbedding, transaction) ==
  [i \in 1..Len(ragMapper.accountEmbeddings) |->
     ragScore(ragMapper, transactionEmbedding, FindEntry(transaction, S_debit)[1],
              ragMapper.accountEmbeddings[i])]

\* No score among candidates is greater than the score picked.
IsHighest(pick, candidates) ==
  /\ pick \in candidates
  /\ \A s \in candidates : ~GreaterThan(s.similarity, pick.similarity)

\* C21: for a transaction with a debit and a credit entry (and scores that
\* can be computed), the result of RAGMapper.mapTransaction carries as
\* debitAccount a highest-scoring account whose type has normal balance
\* debit, as creditAccount a highest-scoring other account whose type has
\* normal balance credit, and as confidence the minimum of the two scores;
\* when one of the two does not exist it is { confidence: 0 }.
C21_RagPicksHighestScoring ==
  [][\A c \in DOMAIN calls :
       (/\ calls[c].pc = "embedded"
        /\ calls'[c].pc = "ragDone"
        /\ ~IsMalformed(calls[c].transaction[1])) =>
         LET scores == RagScores(rag, calls[c].embedding, calls[c].transaction[1])
             result == calls'[c].ragResult
             debits == { scores[i] : i \in { j \in DOMAIN scores :
                           isValidDebitAccount(rag, scores[j].account) } }
             credits == { scores[i] : i \in { j \in DOMAIN scores :
                            isValidCreditAccount(rag, scores[j].account) } }
         IN  IF \E i \in DOMAIN scores : scores[i].threw
               THEN result = NoResult
             ELSE IF debits = {} \/ credits = {}
               THEN result = NoResult
             ELSE \E d \in debits, k \in credits :
                    /\ IsHighest(d, debits)
                    /\ IsHighest(k, credits)
                    /\ k.account # d.account
                    /\ result.debitAccount = d.account
                    /\ result.creditAccount = k.account
                    /\ result.confidence = MathMin(d.similarity, k.similarity)]_vars

\* A RAG result with both accounts and a positive confidence, picked while
\* another account with normal balance debit scored strictly lower than the
\* debit pick.
C21_Witness ==
  \E c \in DOMAIN calls :
    /\ calls[c].pc = "ragDone"
    /\ ~IsMalformed(calls[c].transaction[1])
    /\ HasBothAccounts(calls[c].ragResult)
    /\ GreaterThan(calls[c].ragResult.confidence, Zero)
    /\ calls[c].ragResult
         = ragMapTransaction(rag, calls[c].embedding, calls[c].transaction[1])
    /\ LET scores == RagScores(rag, calls[c].embedding, calls[c].transaction[1])
       IN  \E i \in DOMAIN scores, j \in DOMAIN scores :
             /\ scores[j].account = calls[c].ragResult.debitAccount
             /\ isValidDebitAccount(rag, scores[i].account)
             /\ GreaterThan(scores[j].similarity, scores[i].similarity)


----------------------------------------------------------------------------
(* Properties of the learned tables                                         *)

\* C22: the historical, vendor and usage tables change only in a
\* learnFromTransaction call or in an initialize that completes; no step of
\* a mapTransaction call (findMatches included) changes them, whatever the
\* call returns.
C22_OnlyLearnAndInitializeWrite ==
  [][/\ tpm' # tpm =>
          \/ issued'.learn = issued.learn + 1
          \/ /\ initCall.pc = "awaitingRag"
             /\ initCall'.outcome = "completed"
     /\ calls' # calls => tpm' = tpm]_vars

\* A call that returned a result accepted from the pattern stage, with the
\* tables exactly as the one learnFromTransaction call before it left them.
C22_Witness ==
  \E c \in DOMAIN calls :
    /\ calls[c].pc = "returned"
    /\ calls[c].accepted = "pattern"
    /\ Len(learned) = 1
    /\ tpm = learnFromTransaction(TransactionPatternMatcherNew, learned[1].transaction,
                                  learned[1].debit, learned[1].credit)


----------------------------------------------------------------------------
(* Properties of TransactionFeatureExtractor                                *)

\* The features of the four groups as the group extractors return them,
\* in the order extractFeatures pushes them.
GroupFeatures(transaction) ==
  extractDescriptionFeatures(transaction.description)
  \o extractAmountFeatures(transaction)
  \o (IF HasCustomerName(transaction)
        THEN extractVendorFeatures(transaction.customerName) ELSE <<>>)
  \o extractDateFeatures(transaction.date)

\* C23: every feature extractFeatures returns for a transaction carries the
\* within-group weight its group extractor gave it (1.0, 1.2 or 1.5).
C23_FeaturesCarryOwnWeight ==
  \A c \in DOMAIN calls :
    calls[c].transaction # <<>> =>
      LET features == extractFeatures(calls[c].transaction[1])
          own == GroupFeatures(calls[c].transaction[1])
      IN  \A i \in DOMAIN own :
            /\ features[i].type = own[i].type
            /\ features[i].weight = own[i].weight


\* C24: the confidence of every result of RAGMapper.mapTransaction is a
\* number not greater than 0.8, so step 1 of the cascade (confidence > 0.8)
\* accepts no RAG result.
C24_RagConfidenceAtMostEightTenths ==
  \A c \in DOMAIN calls :
    /\ calls[c].ragResult.confidence.kind = "num"
    /\ ~GreaterThan(calls[c].ragResult.confidence, Frac(8, 10))
    /\ calls[c].accepted # "rag"


(* Concurrent mapTransaction calls of several independent callers and the  *)
(* Concurrent mapTransaction calls of several independent tasks and the    *)
(* counters of the mappingLogger singleton.                                *)

ConcurrentCallers == {"caller1", "caller2"}

\* Both callers may map the same transaction.
ConcurrentTransactions == {txRent, txMiscFee}

MaxConcurrentCalls == 3

InitConcurrent ==
  /\ initialized = FALSE
  /\ rag = RAGMapperNew
  /\ am = AccountMatcherNew
  /\ tpm = TransactionPatternMatcherNew
  /\ apb = AccountPatternBuilderNew
  /\ logger = MappingLoggerNew
  /\ initCall = NoInitCall
  /\ calls = [c \in ConcurrentCallers |-> IdleCall]
  /\ builtBy = [rag |-> 0, am |-> 0, tpm |-> 0, apb |-> 0]
  /\ issued = [initialize |-> 0, learn |-> 0, map |-> 0]
  /\ learned = <<>>
  /\ cache = <<>>
  /\ cacheCalls = <<>>
  /\ store = <<>>
  /\ autoMap = NoAutoMap

\* mapTransaction on the initialized orchestrator: startAttempt, then
\* ragMapper.mapTransaction up to its await.
ConcurrentMapTransactionStart(c, transaction) ==
  /\ calls[c].pc \in {"idle", "returned"}
  /\ issued.map < MaxConcurrentCalls
  /\ initialized
  /\ logger' = startAttempt(logger, transaction.id)
  /\ calls' = [calls EXCEPT ![c] =
                 [IdleCall EXCEPT
                    !.pc = "embedded",
                    !.initializedAtCall = initialized,
                    !.emptyChart = (rag.accounts = <<>>),
                    !.transaction = <<transaction>>,
                    !.embedding = createTransactionEmbedding(rag, transaction,
                                                             extractFeatures(transaction)),
                    !.consulted = <<"rag">>]]
  /\ issued' = [issued EXCEPT !.map = @ + 1]
  /\ UNCHANGED <<initialized, rag, am, tpm, apb, initCall, builtBy>>
  /\ UNCHANGED <<learned, otherVars>>

NextConcurrent ==
  \/ InitializeStart(ChartMain, StandardFull)
  \/ InitializeFinish
  \/ LearnFromTransaction(txRent, "rent", "sales")
  \/ \E c \in DOMAIN calls, transaction \in ConcurrentTransactions :
       ConcurrentMapTransactionStart(c, transaction)
  \/ \E c \in DOMAIN calls : MapTransactionRag(c)
  \/ \E c \in DOMAIN calls : MapTransactionAfterRag(c)
  \/ \E c \in DOMAIN calls : MapTransactionAfterPattern(c)
  \/ \E c \in DOMAIN calls : MapTransactionAfterAccount(c)

SpecConcurrent == InitConcurrent /\ [][NextConcurrent]_vars

\* C25: in every state attempts.successful + attempts.failed is at most
\* attempts.total, and when no mapTransaction call is in flight
\* attempts.total = attempts.successful + attempts.failed.
C25_AttemptCountersAddUp ==
  /\ logger.attempts.successful + logger.attempts.failed <= logger.attempts.total
  /\ (\A c \in DOMAIN calls : calls[c].pc \in {"idle", "returned"}) =>
       logger.attempts.total = logger.attempts.successful + logger.attempts.failed


----------------------------------------------------------------------------
(* Properties of the similarity cache                                       *)

\* C26: whatever calculateTextSimilarity calls came before (without
\* clearCache), the value calculateTextSimilarity returns for a and b is the
\* lexical similarity of a and b: an entry stored for one pair of texts is
\* not returned for another pair.
C26_CacheIsCoherent ==
  /\ \A a \in CacheTexts, b \in CacheTexts :
       NumEq(calculateTextSimilarity(cache, a, b).value, textCalculateSimilarity(a, b))
  /\ \A i \in DOMAIN cacheCalls :
       cacheCalls[i].op = "calculateTextSimilarity" =>
         NumEq(cacheCalls[i].value,
               textCalculateSimilarity(cacheCalls[i].text1, cacheCalls[i].text2))


----------------------------------------------------------------------------
(* Properties of accepted results against the chart of accounts             *)

ChartIds(accounts) == { accounts[i].id : i \in DOMAIN accounts }

\* C27: results stay synchronized with the chart: whenever mapTransaction
\* accepts a result, the ids of its debitAccount and creditAccount are ids
\* of accounts in the chart most recently passed to initialize.
C27_AcceptedIdsAreInChart ==
  [][\A c \in DOMAIN calls :
       (calls[c].pc # "returned" /\ calls'[c].pc = "returned"
          /\ calls'[c].accepted # "none") =>
         /\ calls'[c].result.debitAccount # <<>>
         /\ calls'[c].result.creditAccount # <<>>
         /\ calls'[c].result.debitAccount[1].id \in ChartIds(rag.accounts)
         /\ calls'[c].result.creditAccount[1].id \in ChartIds(rag.accounts)]_vars


----------------------------------------------------------------------------
(* Properties of autoMapTransactions                                        *)

EntriesRecord(t, debitAccountId, creditAccountId) ==
  \A j \in DOMAIN t.entries :
    /\ t.entries[j].status = "mapped"
    /\ t.entries[j].accountId =
         <<IF t.transaction.entries[j].type = S_debit
             THEN debitAccountId ELSE creditAccountId>>

\* C28: autoMapTransactions changes a pending transaction to mapped only
\* when the result for it has confidence above 0.7 and both accounts, and
\* then its debit and credit entries carry exactly the two ids of the
\* result; a result accepted by the account stage or an unmapped result
\* leaves the store as it was.
C28_AutoMapAppliesOnlyConfidentResults ==
  [][(autoMap.pc = "mapping" /\ autoMap' # autoMap) =>
       \E mapped \in {mapTransaction(rag, tpm, am, Head(autoMap.queue).transaction)} :
         /\ mapped.accepted \in {"account", "none"} => store' = store
         /\ Len(store') = Len(store)
         /\ \A i \in DOMAIN store :
              (store[i].status = "pending" /\ store'[i].status = "mapped") =>
                /\ store[i].transaction.id = Head(autoMap.queue).transaction.id
                /\ GreaterThan(mapped.result.confidence, Frac(7, 10))
                /\ mapped.result.debitAccount # <<>>
                /\ mapped.result.creditAccount # <<>>
                /\ EntriesRecord(store'[i], mapped.result.debitAccount[1].id,
                                 mapped.result.creditAccount[1].id)]_vars

\* autoMapTransactions has completed over two pending transactions, both
\* accepted by some stage: the first was mapped from a learned mapping to
\* 'rent' and 'sales' (ids the manual mappings never use), the second is
\* still pending with its entries untouched.
C28_Witness ==
  /\ autoMap.pc = "idle"
  /\ autoMap.outcome = "completed"
  /\ Len(store) = 2
  /\ logger.attempts.total = 2
  /\ logger.attempts.successful = 2
  /\ store[1].status = "mapped"
  /\ EntriesRecord(store[1], "rent", "sales")
  /\ store[2] = StoreTransaction(txCashSale, "co1")


----------------------------------------------------------------------------
(* Properties of re-initialization                                          *)

\* The account ids of the mappings learned since the last completed
\* initialize.
LearnedIds == UNION { {learned[i].debit, learned[i].credit} : i \in DOMAIN learned }

CandidateIds(matches) ==
  { matches.debitMatches[i].accountId : i \in DOMAIN matches.debitMatches }
    \cup { matches.creditMatches[i].accountId : i \in DOMAIN matches.creditMatches }

NoStats == [historicalPatterns |-> 0, vendorPatterns |-> 0, accountsWithUsage |-> 0]

\* C29: every initialize that completes leaves the three learned tables
\* empty (getPatternStats reports 0, 0 and 0 right after it), and findMatches
\* only ever proposes accounts of mappings learned since the last completed
\* initialize, so a mapping learned before a re-initialization produces no
\* candidate afterwards.
C29_InitializeResetsLearnedTables ==
  /\ [][(initCall.pc = "awaitingRag" /\ initCall'.outcome = "completed") =>
          getPatternStats(tpm') = NoStats]_vars
  /\ [](\A transaction \in Transactions :
          CandidateIds(findMatches(tpm, transaction)) \subseteq LearnedIds)

\* A mapping was learned, a second initialize has completed since, and a
\* mapTransaction call is about to run the pattern stage.
C29_Witness ==
  /\ issued.learn = 1
  /\ learned = <<>>
  /\ issued.initialize = 2
  /\ initCall.pc = "idle"
  /\ initCall.outcome = "completed"
  /\ getPatternStats(tpm) = NoStats
  /\ \E c \in DOMAIN calls : calls[c].pc = "ragDone"


----------------------------------------------------------------------------
(* Properties of the usage-frequency table                                  *)

\* How often an id was passed to learnFromTransaction since the last
\* initialize, as debit account plus as credit account.
TimesPassed(accountId) ==
  Cardinality({ i \in DOMAIN learned : learned[i].debit = accountId })
    + Cardinality({ i \in DOMAIN learned : learned[i].credit = accountId })

UsageCount(usage, accountId) ==
  IF MapHas(usage, accountId) THEN MapGet(usage, accountId) ELSE 0

RECURSIVE SumCounts(_)
SumCounts(usage) ==
  IF usage = <<>> THEN 0 ELSE Head(usage)[2] + SumCounts(Tail(usage))

\* C30: the count stored for an account id is the number of times the id
\* was passed as debit or credit account since the last initialize (twice
\* for a call that passed it as both), ids never passed have no entry, the
\* counts sum to twice the number of calls, and the table is non-empty only
\* if the historical table is, so every frequency score is a number.
C30_UsageCountsAppearances ==
  /\ \A accountId \in LearnAccountIds :
       UsageCount(tpm.accountUsageFrequency, accountId) = TimesPassed(accountId)
  /\ \A i \in DOMAIN tpm.accountUsageFrequency :
       /\ tpm.accountUsageFrequency[i][1] \in LearnAccountIds
       /\ tpm.accountUsageFrequency[i][2] > 0
  /\ SumCounts(tpm.accountUsageFrequency) = 2 * Len(learned)
  /\ tpm.accountUsageFrequency # <<>> => tpm.historicalPatterns # <<>>
  /\ \A i \in DOMAIN getFrequencyBasedMatches(tpm) :
       getFrequencyBasedMatches(tpm)[i].confidence.kind = "num"

\* Three calls, one of which passed the same id as debit and as credit
\* account; one account has been counted more often than the other.
C30_Witness ==
  /\ Len(learned) = 3
  /\ \E i \in DOMAIN learned : learned[i].debit = learned[i].credit
  /\ UsageCount(tpm.accountUsageFrequency, "rent") = 4
  /\ UsageCount(tpm.accountUsageFrequency, "sales") = 2
  /\ Len(tpm.historicalPatterns) = 2

====
